---- MODULE Spec2Model ----
(***************************************************************************)
(* A model of the MCP toolbox server: the JSON-RPC protocol engine         *)
(* (server/mcp/protocol.py), the toolset router (tools/toolsets.py) and    *)
(* the HTTP transport, POST and SSE (server/http_server.py), the tool       *)
(* parameters (tools/parameters.py), the invoke wrapper and the stdio      *)
(* loop (server/server.py).                                                *)
(*                                                                         *)
(* Python values and JSON documents are tagged records: field t is the     *)
(* type tag.  A JSON document is what travels on the wire; json.loads and  *)
(* json.dumps convert between the two families of tags.                    *)
(***************************************************************************)
EXTENDS Integers, Sequences, FiniteSets, TLC

VARIABLES
    phase,            \* "boot" | "serving" | "failed": ToolboxServer.initialize
    toolset_configs,  \* ServerConfig.toolsets: ordered mapping name -> list of tool names
    tools,            \* McpServer.tools: the registry, tool names in insertion order
    toolsets,         \* McpServer.toolsets: ordered mapping name -> Toolset
    initialized,      \* McpServer.initialized
    sse_sessions,     \* HttpMcpServer.sse_sessions: session id -> SSESession
    sse_handlers,     \* the handle_sse_connection calls: session id -> position
    post,             \* the POST /mcp[/{toolset_name}] request being served
    parameter_list,   \* ParameterSet._parameter_list of the parameter set at hand
    given_values,     \* the argument mapping given to it
    validated_values, \* what validate_values(values) returned or raised
    mcp_schema,       \* what to_mcp_schema() returned
    validated_defaults,\* what validate(default) returned or raised, per parameter
    tool_configs,     \* ServerConfig.tools: tool name -> its pre_hook and datasource_ids
    invokes,          \* tool name -> the closures wrapped around the tool's invoke
    hook_cells,       \* the variable hook of each attach_pre_hook call, at its end
    call,             \* the tool.invoke(arguments) call being run
    stdin,            \* the lines standard input still holds
    stdout,           \* the lines printed on standard output
    stdio             \* serve_stdio: its position, its line and what it has done

http_vars == <<phase, toolset_configs, tools, toolsets, initialized, sse_sessions,
               sse_handlers, post>>

pure_vars == <<parameter_list, given_values, validated_values, mcp_schema,
               validated_defaults>>

hook_vars == <<tool_configs, invokes, hook_cells, call>>

stdio_vars == <<stdin, stdout, stdio>>

vars == <<http_vars, pure_vars, hook_vars, stdio_vars>>

----------------------------------------------------------------------------
(* Python values *)

PyNone == [t |-> "None"]

PyStr(s) == [t |-> "str", v |-> s]

PyInt(n) == [t |-> "int", n |-> n]

PyBool(b) == [t |-> "bool", b |-> b]

\* a float, held as twice its value: the floats here are multiples of 0.5
PyFloat(k) == [t |-> "float", twice |-> k]

\* a value json cannot encode natively (datetime.date, Decimal): default=str applies
PyDate(s) == [t |-> "date", v |-> s]

PyList(xs) == [t |-> "list", items |-> xs]

\* a dict: its keys in insertion order, and the mapping
PyDict(ks, vs) == [t |-> "dict", keys |-> ks, vals |-> vs]

EmptyDict == PyDict(<<>>, [k \in {} |-> PyNone])

\* dict.get(key, default)
DictGet(d, key, default) ==
    IF key \in DOMAIN d.vals THEN d.vals[key] ELSE default

(* JSON documents *)

JNull == [t |-> "null"]

JString(s) == [t |-> "string", v |-> s]

JNumber(n) == [t |-> "number", n |-> n]

JBool(b) == [t |-> "boolean", b |-> b]

JArray(xs) == [t |-> "array", items |-> xs]

JObject(ks, vs) == [t |-> "object", keys |-> ks, vals |-> vs]

\* text that is no JSON document
Garbage(s) == [t |-> "garbage", v |-> s]

(* the outcome of a call: a returned value or a raised exception *)

Return(x) == [raised |-> FALSE, value |-> x]

Raise(type, msg) == [raised |-> TRUE, exc |-> type, message |-> msg]

----------------------------------------------------------------------------
(* json.loads / json.dumps *)

RECURSIVE FromJson(_)
FromJson(j) ==
    CASE j.t = "null" -> PyNone
      [] j.t = "string" -> PyStr(j.v)
      [] j.t = "number" -> PyInt(j.n)
      [] j.t = "boolean" -> PyBool(j.b)
      [] j.t = "array" -> PyList([i \in 1..Len(j.items) |-> FromJson(j.items[i])])
      [] j.t = "object" -> PyDict(j.keys, [k \in DOMAIN j.vals |-> FromJson(j.vals[k])])

json_loads(text) ==
    IF text.t = "garbage"
    THEN Raise("JSONDecodeError", "Expecting value: line 1 column 1 (char 0)")
    ELSE Return(FromJson(text))

\* json.dumps(obj, default=str), as the document it writes
RECURSIVE ToJson(_)
ToJson(p) ==
    CASE p.t = "None" -> JNull
      [] p.t = "str" -> JString(p.v)
      [] p.t = "int" -> JNumber(p.n)
      [] p.t = "bool" -> JBool(p.b)
      [] p.t = "date" -> JString(p.v)
      [] p.t = "list" -> JArray([i \in 1..Len(p.items) |-> ToJson(p.items[i])])
      [] p.t = "dict" -> JObject(p.keys, [k \in DOMAIN p.vals |-> ToJson(p.vals[k])])

RECURSIVE JoinText(_, _)
JoinText(parts, sep) ==
    IF Len(parts) = 0 THEN ""
    ELSE IF Len(parts) = 1 THEN parts[1]
    ELSE parts[1] \o sep \o JoinText(Tail(parts), sep)

Quoted(s) == "\"" \o s \o "\""

\* the text of a JSON document, with json.dumps' separators ", " and ": "
RECURSIVE JsonText(_)
JsonText(j) ==
    CASE j.t = "null" -> "null"
      [] j.t = "string" -> Quoted(j.v)
      [] j.t = "number" -> ToString(j.n)
      [] j.t = "boolean" -> IF j.b THEN "true" ELSE "false"
      [] j.t = "array" ->
           "[" \o JoinText([i \in 1..Len(j.items) |-> JsonText(j.items[i])], ", ") \o "]"
      [] j.t = "object" ->
           "{" \o JoinText([i \in 1..Len(j.keys) |->
                              Quoted(j.keys[i]) \o ": " \o JsonText(j.vals[j.keys[i]])], ", ")
               \o "}"

json_dumps(p) == JsonText(ToJson(p))

\* repr(x)
RECURSIVE Repr(_)
Repr(p) ==
    CASE p.t = "None" -> "None"
      [] p.t = "str" -> "'" \o p.v \o "'"
      [] p.t = "int" -> ToString(p.n)
      [] p.t = "float" ->
           ToString(p.twice \div 2) \o (IF p.twice % 2 = 0 THEN ".0" ELSE ".5")
      [] p.t = "bool" -> IF p.b THEN "True" ELSE "False"
      [] p.t = "date" -> "datetime.date(" \o p.v \o ")"
      [] p.t = "list" ->
           "[" \o JoinText([i \in 1..Len(p.items) |-> Repr(p.items[i])], ", ") \o "]"
      [] p.t = "dict" ->
           "{" \o JoinText([i \in 1..Len(p.keys) |->
                              "'" \o p.keys[i] \o "': " \o Repr(p.vals[p.keys[i]])], ", ")
               \o "}"

\* str(x), for the values that reach an f-string
Str(p) ==
    CASE p.t = "str" -> p.v
      [] p.t = "date" -> p.v
      [] OTHER -> Repr(p)

----------------------------------------------------------------------------
(* server/mcp/protocol.py: the request and response dataclasses *)

McpRequestFields == {"jsonrpc", "method", "id", "params"}

McpRequestRequired == {"jsonrpc", "method"}

\* the default of McpRequest.id
DefaultRequestId == 999

\* McpRequest(**request_json)
McpRequest(request_json) ==
    IF request_json.t # "dict"
    THEN Raise("TypeError", "argument after ** must be a mapping")
    ELSE LET kw == request_json.vals IN
         IF ~(DOMAIN kw \subseteq McpRequestFields)
         THEN Raise("TypeError", "McpRequest.__init__() got an unexpected keyword argument")
         ELSE IF ~(McpRequestRequired \subseteq DOMAIN kw)
         THEN Raise("TypeError", "McpRequest.__init__() missing required positional arguments")
         ELSE Return([jsonrpc |-> kw.jsonrpc,
                      method  |-> kw.method,
                      id      |-> DictGet(request_json, "id", PyInt(DefaultRequestId)),
                      params  |-> DictGet(request_json, "params", PyNone)])

\* the fields the McpResponse dataclass declares (error is commented out)
McpResponseFields == <<"jsonrpc", "id", "result">>

McpResponseRequired == {"jsonrpc", "id"}

Range(seq) == {seq[i] : i \in 1..Len(seq)}

\* McpResponse(**kw): the instance's __dict__, or the TypeError of the
\* generated __init__
McpResponse(kw) ==
    IF ~(DOMAIN kw \subseteq Range(McpResponseFields))
    THEN Raise("TypeError", "McpResponse.__init__() got an unexpected keyword argument 'error'")
    ELSE IF ~(McpResponseRequired \subseteq DOMAIN kw)
    THEN Raise("TypeError", "McpResponse.__init__() missing required positional arguments")
    ELSE Return(PyDict(McpResponseFields,
                       [f \in Range(McpResponseFields) |->
                           IF f \in DOMAIN kw THEN kw[f] ELSE PyNone]))

\* the error object of a JSON-RPC error response
ErrorObject(code, message) ==
    PyDict(<<"code", "message">>, [code |-> PyInt(code), message |-> PyStr(message)])

METHOD_NOT_FOUND == -32601

INVALID_PARAMS == -32602

INTERNAL_ERROR == -32603

----------------------------------------------------------------------------
(* tools/parameters.py *)

\* an ordered mapping: the keys in insertion order, and the mapping
Mapping(ks, vs) == [keys |-> ks, vals |-> vs]

EmptyMapping == Mapping(<<>>, [k \in {} |-> PyNone])

\* d[key] = value on an ordered mapping: a new key goes last
MappingSet(d, key, value) ==
    Mapping(IF key \in DOMAIN d.vals THEN d.keys ELSE Append(d.keys, key),
            [k \in DOMAIN d.vals \cup {key} |-> IF k = key THEN value ELSE d.vals[k]])

\* ParameterType
ParameterType ==
    {"string", "integer", "number", "boolean", "array", "object", "map"}

\* str() of a member of ParameterType
EnumStr(value) ==
    "ParameterType." \o
    (CASE value = "string" -> "STRING" [] value = "integer" -> "INTEGER"
       [] value = "number" -> "NUMBER" [] value = "boolean" -> "BOOLEAN"
       [] value = "array" -> "ARRAY" [] value = "object" -> "OBJECT"
       [] value = "map" -> "MAP")

\* the fields of Parameter that have a default
ParameterDefaults ==
    [required |-> TRUE, default |-> PyNone, enum |-> PyNone, minimum |-> PyNone,
     maximum |-> PyNone, min_length |-> PyNone, max_length |-> PyNone,
     pattern |-> PyNone, items |-> PyNone, value_type |-> PyNone]

\* Parameter._get_default_value: defaults.get(self.type), None for a map
_get_default_value(self) ==
    CASE self.type = "string" -> PyStr("")
      [] self.type = "integer" -> PyInt(0)
      [] self.type = "number" -> PyFloat(0)
      [] self.type = "boolean" -> PyBool(FALSE)
      [] self.type = "array" -> PyList(<<>>)
      [] self.type = "object" -> EmptyDict
      [] OTHER -> PyNone

\* Parameter.__post_init__
__post_init__(self) ==
    IF ~self.required /\ self.default = PyNone
    THEN [self EXCEPT !.default = _get_default_value(self)]
    ELSE self

\* Parameter(name, type, description, **kw)
Parameter(name, type, description, kw) ==
    __post_init__([f \in DOMAIN ParameterDefaults \cup {"name", "type", "description"} |->
        CASE f = "name" -> name
          [] f = "type" -> type
          [] f = "description" -> description
          [] f \in DOMAIN kw -> kw[f]
          [] OTHER -> ParameterDefaults[f]])

\* twice the number a bool, an int or a float stands for
Twice(value) ==
    CASE value.t = "bool" -> IF value.b THEN 2 ELSE 0
      [] value.t = "int" -> 2 * value.n
      [] value.t = "float" -> value.twice

IsNumeric(value) == value.t \in {"bool", "int", "float"}

\* a == b
RECURSIVE PyEq(_, _)
PyEq(a, b) ==
    CASE IsNumeric(a) /\ IsNumeric(b) -> Twice(a) = Twice(b)
      [] a.t = "list" /\ b.t = "list" ->
           /\ Len(a.items) = Len(b.items)
           /\ \A i \in 1..Len(a.items) : PyEq(a.items[i], b.items[i])
      [] a.t = "dict" /\ b.t = "dict" ->
           /\ DOMAIN a.vals = DOMAIN b.vals
           /\ \A k \in DOMAIN a.vals : PyEq(a.vals[k], b.vals[k])
      [] OTHER -> a = b

\* value in container, for a list
PyIn(value, container) ==
    \E i \in 1..Len(container.items) : PyEq(container.items[i], value)

Digits == "0123456789"

DigitOf(c) == (CHOOSE i \in 1..Len(Digits) : SubSeq(Digits, i, i) = c) - 1

IsDigits(s) ==
    /\ Len(s) > 0
    /\ \A i \in 1..Len(s) : \E j \in 1..Len(Digits) : SubSeq(Digits, j, j) = SubSeq(s, i, i)

RECURSIVE DigitsValue(_)
DigitsValue(s) ==
    IF Len(s) = 0 THEN 0
    ELSE 10 * DigitsValue(SubSeq(s, 1, Len(s) - 1)) + DigitOf(SubSeq(s, Len(s), Len(s)))

\* int(value) for a str of digits; any other text here raises
IntOfStr(s) ==
    IF IsDigits(s) THEN Return(PyInt(DigitsValue(s)))
    ELSE Raise("ValueError", "invalid literal for int() with base 10: '" \o s \o "'")

\* float(value) for a str: digits, or digits followed by .0 or .5
FloatOfStr(s) ==
    IF IsDigits(s) THEN Return(PyFloat(2 * DigitsValue(s)))
    ELSE IF /\ Len(s) > 2
            /\ IsDigits(SubSeq(s, 1, Len(s) - 2))
            /\ SubSeq(s, Len(s) - 1, Len(s)) \in {".0", ".5"}
    THEN Return(PyFloat(2 * DigitsValue(SubSeq(s, 1, Len(s) - 2))
                        + (IF SubSeq(s, Len(s) - 1, Len(s)) = ".5" THEN 1 ELSE 0)))
    ELSE Raise("ValueError", "could not convert string to float: '" \o s \o "'")

Upper == "ABCDEFGHIJKLMNOPQRSTUVWXYZ"

Lower == "abcdefghijklmnopqrstuvwxyz"

\* value.lower() left out: the string is compared as it was given
LowerOmitted(s) == s

\* str.lower
RECURSIVE lower(_)
lower(s) ==
    IF Len(s) = 0 THEN ""
    ELSE LET c == SubSeq(s, 1, 1)
             up == {i \in 1..Len(Upper) : SubSeq(Upper, i, i) = c} IN
         (IF up = {} THEN c ELSE LET i == CHOOSE i \in up : TRUE IN SubSeq(Lower, i, i))
         \o lower(SubSeq(s, 2, Len(s)))

\* re.match(pattern, value) for a pattern of literal characters: the value
\* starts with the pattern
re_match(pattern, value) ==
    Len(value) >= Len(pattern) /\ SubSeq(value, 1, Len(pattern)) = pattern

RECURSIVE ParameterValidate(_, _)

\* the list comprehension leaving out the elements that fail to validate
RECURSIVE ValidateItemsSkipping(_, _, _, _)
ValidateItemsSkipping(items, value, i, validated) ==
    IF i > Len(value.items) THEN Return(PyList(validated))
    ELSE LET r == ParameterValidate(items, value.items[i]) IN
         IF r.raised THEN ValidateItemsSkipping(items, value, i + 1, validated)
         ELSE ValidateItemsSkipping(items, value, i + 1, Append(validated, r.value))

\* [self.items.validate(v) for v in value]
RECURSIVE ValidateItems(_, _, _, _)
ValidateItems(items, value, i, validated) ==
    IF i > Len(value.items) THEN Return(PyList(validated))
    ELSE LET r == ParameterValidate(items, value.items[i]) IN
         IF r.raised THEN r
         ELSE ValidateItems(items, value, i + 1, Append(validated, r.value))

\* the loop over value.items() of a typed map
RECURSIVE ValidateMapValues(_, _, _, _)
ValidateMapValues(value_param, value, i, validated) ==
    IF i > Len(value.keys) THEN Return(validated)
    ELSE LET k == value.keys[i]
             r == ParameterValidate(value_param, value.vals[k]) IN
         IF r.raised THEN r
         ELSE ValidateMapValues(value_param, value, i + 1,
                                PyDict(Append(validated.keys, k),
                                       [j \in DOMAIN validated.vals \cup {k} |->
                                           IF j = k THEN r.value ELSE validated.vals[j]]))

\* Parameter._validate_type
_validate_type(self, value) ==
    CASE self.type = "string" ->
           IF value.t # "str" THEN Return(PyStr(Str(value))) ELSE Return(value)
      [] self.type = "integer" ->
           CASE value.t = "bool" ->
                  Raise("ValueError", "Parameter '" \o self.name
                                      \o "' must be an integer, got boolean")
             [] value.t = "str" ->
                  IF IntOfStr(value.v).raised
                  THEN Raise("ValueError", "Parameter '" \o self.name
                                 \o "' must be an integer, got '" \o value.v \o "'")
                  ELSE IntOfStr(value.v)
             [] value.t = "float" ->
                  IF value.twice % 2 = 0 THEN Return(PyInt(value.twice \div 2))
                  ELSE Raise("ValueError", "Parameter '" \o self.name
                                 \o "' must be an integer, got float " \o Str(value))
             [] value.t = "int" -> Return(value)
             [] OTHER ->
                  Raise("ValueError", "Parameter '" \o self.name \o "' must be an integer")
      [] self.type = "number" ->
           CASE value.t = "bool" ->
                  Raise("ValueError", "Parameter '" \o self.name
                                      \o "' must be a number, got boolean")
             [] value.t = "str" ->
                  IF FloatOfStr(value.v).raised
                  THEN Raise("ValueError", "Parameter '" \o self.name
                                 \o "' must be a number, got '" \o value.v \o "'")
                  ELSE FloatOfStr(value.v)
             [] value.t \in {"int", "float"} -> Return(PyFloat(Twice(value)))
             [] OTHER ->
                  Raise("ValueError", "Parameter '" \o self.name \o "' must be a number")
      [] self.type = "boolean" ->
           CASE value.t = "bool" -> Return(value)
             [] value.t = "str" ->
                  IF lower(value.v) \in {"true", "1", "yes", "on"}
                  THEN Return(PyBool(TRUE))
                  ELSE IF lower(value.v) \in {"false", "0", "no", "off"}
                  THEN Return(PyBool(FALSE))
                  ELSE Raise("ValueError", "Parameter '" \o self.name
                                 \o "' must be a boolean, got '" \o value.v \o "'")
             [] value.t \in {"int", "float"} -> Return(PyBool(Twice(value) # 0))
             [] OTHER ->
                  Raise("ValueError", "Parameter '" \o self.name \o "' must be a boolean")
      [] self.type = "array" ->
           IF value.t # "list"
           THEN Raise("ValueError", "Parameter '" \o self.name \o "' must be an array")
           ELSE IF self.items # PyNone
           THEN ValidateItems(self.items, value, 1, <<>>)
           ELSE Return(value)
      [] self.type = "map" ->
           IF value.t # "dict"
           THEN Raise("ValueError", "Parameter '" \o self.name \o "' must be a map/object")
           ELSE IF self.value_type = PyNone THEN Return(value)
           ELSE IF self.value_type.v \notin {"string", "integer", "number", "boolean"}
           THEN Raise("ValueError", "Parameter '" \o self.name
                          \o "' has unsupported valueType '"
                          \o EnumStr(self.value_type.v) \o "'")
           ELSE ValidateMapValues(
                    Parameter(self.name \o "_value", self.value_type.v,
                              "Value for map '" \o self.name \o "'",
                              [required |-> TRUE]),
                    value, 1, EmptyDict)
      [] self.type = "object" ->
           IF value.t # "dict"
           THEN Raise("ValueError", "Parameter '" \o self.name \o "' must be an object")
           ELSE Return(value)
      [] OTHER -> Return(value)

\* Parameter._validate_constraints testing the lengths and the pattern before
\* the enum and the bounds, and the pattern before the lengths
ValidateConstraintsPatternFirst(self, value) ==
    IF /\ self.type = "string"
       /\ self.pattern # PyNone
       /\ ~re_match(self.pattern.v, value.v)
    THEN Raise("ValueError", "Parameter '" \o self.name \o "' does not match pattern "
                             \o self.pattern.v)
    ELSE IF /\ self.type = "string"
            /\ self.min_length # PyNone
            /\ Len(value.v) < self.min_length.n
    THEN Raise("ValueError", "Parameter '" \o self.name \o "' must be at least "
                             \o Str(self.min_length) \o " characters")
    ELSE IF /\ self.type = "string"
            /\ self.max_length # PyNone
            /\ Len(value.v) > self.max_length.n
    THEN Raise("ValueError", "Parameter '" \o self.name \o "' must be at most "
                             \o Str(self.max_length) \o " characters")
    ELSE IF /\ self.type = "array"
            /\ self.min_length # PyNone
            /\ Len(value.items) < self.min_length.n
    THEN Raise("ValueError", "Parameter '" \o self.name \o "' must have at least "
                             \o Str(self.min_length) \o " items")
    ELSE IF /\ self.type = "array"
            /\ self.max_length # PyNone
            /\ Len(value.items) > self.max_length.n
    THEN Raise("ValueError", "Parameter '" \o self.name \o "' must have at most "
                             \o Str(self.max_length) \o " items")
    ELSE IF self.enum # PyNone /\ ~PyIn(value, self.enum)
    THEN Raise("ValueError", "Parameter '" \o self.name \o "' must be one of "
                             \o Str(self.enum) \o ", got " \o Str(value))
    ELSE IF /\ self.type \in {"integer", "number"}
            /\ self.minimum # PyNone
            /\ Twice(value) < Twice(self.minimum)
    THEN Raise("ValueError", "Parameter '" \o self.name \o "' must be >= "
                             \o Str(self.minimum) \o ", got " \o Str(value))
    ELSE IF /\ self.type \in {"integer", "number"}
            /\ self.maximum # PyNone
            /\ Twice(value) > Twice(self.maximum)
    THEN Raise("ValueError", "Parameter '" \o self.name \o "' must be <= "
                             \o Str(self.maximum) \o ", got " \o Str(value))
    ELSE Return(PyNone)

\* Parameter._validate_constraints: None, or the ValueError of the first
\* constraint the value breaks
_validate_constraints(self, value) ==
    IF self.enum # PyNone /\ ~PyIn(value, self.enum)
    THEN Raise("ValueError", "Parameter '" \o self.name \o "' must be one of "
                             \o Str(self.enum) \o ", got " \o Str(value))
    ELSE IF /\ self.type \in {"integer", "number"}
            /\ self.minimum # PyNone
            /\ Twice(value) < Twice(self.minimum)
    THEN Raise("ValueError", "Parameter '" \o self.name \o "' must be >= "
                             \o Str(self.minimum) \o ", got " \o Str(value))
    ELSE IF /\ self.type \in {"integer", "number"}
            /\ self.maximum # PyNone
            /\ Twice(value) > Twice(self.maximum)
    THEN Raise("ValueError", "Parameter '" \o self.name \o "' must be <= "
                             \o Str(self.maximum) \o ", got " \o Str(value))
    ELSE IF /\ self.type = "string"
            /\ self.min_length # PyNone
            /\ Len(value.v) < self.min_length.n
    THEN Raise("ValueError", "Parameter '" \o self.name \o "' must be at least "
                             \o Str(self.min_length) \o " characters")
    ELSE IF /\ self.type = "string"
            /\ self.max_length # PyNone
            /\ Len(value.v) > self.max_length.n
    THEN Raise("ValueError", "Parameter '" \o self.name \o "' must be at most "
                             \o Str(self.max_length) \o " characters")
    ELSE IF /\ self.type = "string"
            /\ self.pattern # PyNone
            /\ ~re_match(self.pattern.v, value.v)
    THEN Raise("ValueError", "Parameter '" \o self.name \o "' does not match pattern "
                             \o self.pattern.v)
    ELSE IF /\ self.type = "array"
            /\ self.min_length # PyNone
            /\ Len(value.items) < self.min_length.n
    THEN Raise("ValueError", "Parameter '" \o self.name \o "' must have at least "
                             \o Str(self.min_length) \o " items")
    ELSE IF /\ self.type = "array"
            /\ self.max_length # PyNone
            /\ Len(value.items) > self.max_length.n
    THEN Raise("ValueError", "Parameter '" \o self.name \o "' must have at most "
                             \o Str(self.max_length) \o " items")
    ELSE Return(PyNone)

\* Parameter.validate
ParameterValidate(param, value) ==
    IF value.t = "None"
    THEN IF param.required
         THEN Raise("ValueError", "Parameter '" \o param.name \o "' is required")
         ELSE Return(param.default)
    ELSE LET validated_value == _validate_type(param, value) IN
         IF validated_value.raised THEN validated_value
         ELSE LET checked == _validate_constraints(param, validated_value.value) IN
              IF checked.raised THEN checked ELSE validated_value

\* a dict literal of the keys that are set, in the order they are set
DictOf(order, members) ==
    LET present == SelectSeq(order, LAMBDA k : members[k].t # "absent") IN
    PyDict(present, [k \in Range(present) |-> members[k]])

\* Parameter.to_mcp_schema
RECURSIVE ParameterSchema(_)
ParameterSchema(param) ==
    LET set(x) == IF x = PyNone THEN [t |-> "absent"] ELSE x
        only(type, x) == IF param.type = type THEN set(x) ELSE [t |-> "absent"] IN
    DictOf(<<"type", "description", "enum", "minimum", "maximum", "minLength",
             "minItems", "maxLength", "maxItems", "pattern", "items",
             "additionalProperties">>,
           [type |-> PyStr(IF param.type = "map" THEN "object" ELSE param.type),
            description |-> PyStr(param.description),
            enum |-> set(param.enum),
            minimum |-> set(param.minimum),
            maximum |-> set(param.maximum),
            minLength |-> only("string", param.min_length),
            minItems |-> only("array", param.min_length),
            maxLength |-> only("string", param.max_length),
            maxItems |-> only("array", param.max_length),
            pattern |-> set(param.pattern),
            items |-> IF param.type = "array" /\ param.items # PyNone
                      THEN ParameterSchema(param.items) ELSE [t |-> "absent"],
            additionalProperties |->
                IF param.type # "map" THEN [t |-> "absent"]
                ELSE IF param.value_type = PyNone THEN PyBool(TRUE)
                ELSE PyDict(<<"type">>, [type |-> param.value_type])])

\* ParameterSet.to_mcp_schema
to_mcp_schema(parameters) ==
    LET required == SelectSeq(parameters, LAMBDA q : q.required) IN
    PyDict(<<"type", "properties", "required">>,
           [type |-> PyStr("object"),
            properties |->
                PyDict([i \in 1..Len(parameters) |-> parameters[i].name],
                       [n \in {parameters[i].name : i \in 1..Len(parameters)} |->
                           ParameterSchema(
                               (CHOOSE q \in Range(parameters) : q.name = n))]),
            required |-> PyList([i \in 1..Len(required) |-> PyStr(required[i].name)])])

\* ParameterSet.validate_values: the first loop, over the keys given
RECURSIVE ValidateGiven(_, _, _, _)
ValidateGiven(parameters, values, i, validated) ==
    IF i > Len(values.keys) THEN Return(validated)
    ELSE LET name == values.keys[i] IN
         IF name \notin {q.name : q \in Range(parameters)}
         THEN Raise("ValueError", "Unknown parameter: " \o name)
         ELSE LET r == ParameterValidate(
                          (CHOOSE q \in Range(parameters) : q.name = name),
                          values.vals[name]) IN
              IF r.raised THEN r
              ELSE ValidateGiven(parameters, values, i + 1,
                                 MappingSet(validated, name, r.value))

\* the second loop raising for the missing required parameters only: the
\* missing optional ones stay out of the mapping
RECURSIVE FillMissingSkipping(_, _, _)
FillMissingSkipping(parameters, i, validated) ==
    IF i > Len(parameters) THEN Return(validated)
    ELSE LET param == parameters[i] IN
         IF param.name \notin DOMAIN validated.vals /\ param.required
         THEN Raise("ValueError",
                    "Required parameter '" \o param.name \o "' not provided")
         ELSE FillMissingSkipping(parameters, i + 1, validated)

\* ParameterSet.validate_values: the second loop, over the declared parameters
RECURSIVE FillMissing(_, _, _)
FillMissing(parameters, i, validated) ==
    IF i > Len(parameters) THEN Return(validated)
    ELSE LET param == parameters[i] IN
         IF param.name \in DOMAIN validated.vals
         THEN FillMissing(parameters, i + 1, validated)
         ELSE IF param.required
         THEN Raise("ValueError",
                    "Required parameter '" \o param.name \o "' not provided")
         ELSE FillMissing(parameters, i + 1,
                          MappingSet(validated, param.name, param.default))

validate_values(parameters, values) ==
    IF values.t # "dict"
    THEN Raise("AttributeError", "object has no attribute 'items'")
    ELSE LET given == ValidateGiven(parameters, values, 1, EmptyMapping) IN
         IF given.raised THEN given
         ELSE FillMissing(parameters, 1, given.value)

----------------------------------------------------------------------------
(* tools/base.py and the tools of the configuration *)

\* a required string parameter, as parse_parameters builds it
StringParam(name, description) ==
    Parameter(name, "string", description, [required |-> TRUE])

\* the scenario's tool: one required string parameter, message
EchoTool ==
    [name |-> "echo", kind |-> "echo", description |-> "Echo the message back",
     parameters |-> <<StringParam("message", "The message to echo")>>]

\* a parameterless SQL statement on a MySQL source
QueryTool ==
    [name |-> "query", kind |-> "mysql-sql", description |-> "Run the report query",
     parameters |-> <<>>]

\* what execute_query can return: no row, or one row holding a number and a date
BackendRows ==
    { PyList(<<>>),
      PyList(<<PyDict(<<"n", "day">>, [n |-> PyInt(1), day |-> PyDate("2024-01-01")])>>) }

\* what execute_query can raise
BackendErrors == { Raise("OperationalError", "Lost connection to MySQL server") }

\* MySQLSqlTool.invoke from its await of execute_query on: the rows come back
\* and are returned under "data", or execute_query raises
ExecuteQuery ==
    {Return(PyList(<<PyDict(<<"data">>, [data |-> rows])>>)) : rows \in BackendRows}
    \cup BackendErrors

\* MySQLSqlTool.invoke: every outcome one call can have
SqlInvoke(tool, arguments) ==
    LET validated == validate_values(tool.parameters, arguments) IN
    IF validated.raised THEN {validated}
    ELSE ExecuteQuery

\* the echo tool's invoke: the validated message, returned as it is
EchoInvoke(tool, arguments) ==
    LET validated == validate_values(tool.parameters, arguments) IN
    IF validated.raised THEN {validated}
    ELSE {Return(validated.value.vals["message"])}

\* an HTTP tool whose parameters are all query parameters
HttpTool(parameters) ==
    [name |-> "fetch", kind |-> "http", description |-> "Fetch the report",
     parameters |-> parameters]

\* HttpTool.invoke from its await of source.request on: the data of the
\* response is returned in a list, or the request fails and RuntimeError is
\* raised in its place
SourceRequest ==
    { Return(PyList(<<PyDict(<<"ok">>, [ok |-> PyBool(TRUE)])>>)),
      Raise("RuntimeError", "HTTP request failed: Cannot connect to host") }

\* HttpTool.invoke: every outcome one call can have
HttpInvoke(tool, arguments) ==
    LET validated == validate_values(tool.parameters, arguments) IN
    IF validated.raised THEN {validated}
    ELSE SourceRequest

\* await tool.invoke(arguments): every outcome it can have
ToolInvoke(tool, arguments) ==
    IF tool.kind = "echo" THEN EchoInvoke(tool, arguments)
    ELSE IF tool.kind = "http" THEN HttpInvoke(tool, arguments)
    ELSE SqlInvoke(tool, arguments)

\* Tool.get_mcp_manifest
get_mcp_manifest(tool) ==
    PyDict(<<"name", "description", "inputSchema">>,
           [name |-> PyStr(tool.name),
            description |-> PyStr(tool.description),
            inputSchema |-> to_mcp_schema(tool.parameters)])

----------------------------------------------------------------------------
(* tools/toolsets.py *)

Toolset(name, toolset_tools, description) ==
    [name |-> name, tools |-> toolset_tools, description |-> description]

\* a dict key must be hashable
Hashable(key) == key.t \notin {"list", "dict"}

\* name in self.tools, for a hashable name
HasKey(mapping, key) == key.t = "str" /\ key.v \in DOMAIN mapping.vals

\* Toolset.has_tool
has_tool(toolset, name) ==
    IF ~Hashable(name) THEN Raise("TypeError", "unhashable type")
    ELSE Return(HasKey(toolset.tools, name))

\* Toolset.get_tool
get_tool(toolset, name) ==
    IF HasKey(toolset.tools, name) THEN toolset.tools.vals[name.v] ELSE PyNone

\* Toolset.get_mcp_tools_list
get_mcp_tools_list(toolset) ==
    PyList([i \in 1..Len(toolset.tools.keys) |->
               get_mcp_manifest(toolset.tools.vals[toolset.tools.keys[i]])])

\* create_toolsets: the tool names and the description of one entry
EntryToolNames(config) ==
    IF config.t = "list" THEN config
    ELSE DictGet(config, "tools", DictGet(config, "tool_names", PyList(<<>>)))

EntryDescription(config) ==
    IF config.t = "list" THEN PyNone ELSE DictGet(config, "description", PyNone)

\* the inner loop leaving out the names that are no key of all_tools
RECURSIVE CollectToolsSkipping(_, _, _, _, _)
CollectToolsSkipping(name, tool_names, all_tools, i, toolset_tools) ==
    IF i > Len(tool_names.items) THEN Return(toolset_tools)
    ELSE LET tool_name == tool_names.items[i] IN
         CollectToolsSkipping(name, tool_names, all_tools, i + 1,
             IF ~HasKey(all_tools, tool_name) THEN toolset_tools
             ELSE MappingSet(toolset_tools, tool_name.v, all_tools.vals[tool_name.v]))

\* create_toolsets: the inner loop, over the tool names of one entry
RECURSIVE CollectTools(_, _, _, _, _)
CollectTools(name, tool_names, all_tools, i, toolset_tools) ==
    IF i > Len(tool_names.items) THEN Return(toolset_tools)
    ELSE LET tool_name == tool_names.items[i] IN
         IF ~HasKey(all_tools, tool_name)
         THEN Raise("ValueError",
                    "Tool '" \o Str(tool_name) \o "' not found for toolset '" \o name \o "'")
         ELSE CollectTools(name, tool_names, all_tools, i + 1,
                           MappingSet(toolset_tools, tool_name.v,
                                      all_tools.vals[tool_name.v]))

\* create_toolsets: the outer loop, over the entries in configuration order
RECURSIVE CreateFrom(_, _, _, _)
CreateFrom(configs, all_tools, i, made) ==
    IF i > Len(configs.keys) THEN Return(made)
    ELSE LET name == configs.keys[i]
             config == configs.vals[name]
             members == CollectTools(name, EntryToolNames(config), all_tools, 1,
                                     EmptyMapping) IN
         IF members.raised THEN members
         ELSE CreateFrom(configs, all_tools, i + 1,
                         MappingSet(made, name,
                                    Toolset(name, members.value, EntryDescription(config))))

create_toolsets(configs, all_tools) == CreateFrom(configs, all_tools, 1, EmptyMapping)

----------------------------------------------------------------------------
(* server/mcp/protocol.py: McpServer *)

\* McpServer.__init__ setting the default toolset without looking for one
McpServerToolsetsOverride(all_tools, made) ==
    MappingSet(made, "", Toolset("", all_tools, PyStr("Default toolset with all tools")))

\* McpServer.__init__: the toolset map, with the default toolset added when
\* the configuration declares none under the empty name
McpServerToolsets(all_tools, made) ==
    IF "" \notin DOMAIN made.vals
    THEN MappingSet(made, "",
                    Toolset("", all_tools, PyStr("Default toolset with all tools")))
    ELSE made

JsonRpc == PyStr("2.0")

\* a request handler either has its response (or exception), or awaits
\* tool.invoke(arguments)
Done(outcome) == [k |-> "done", outcome |-> outcome]

Invoke(tool, arguments) == [k |-> "invoke", tool |-> tool, arguments |-> arguments]

_handle_initialize(request) ==
    McpResponse([jsonrpc |-> JsonRpc, id |-> request.id,
                 result |-> PyDict(<<"protocolVersion", "capabilities", "serverInfo">>,
                     [protocolVersion |-> PyStr("2024-11-05"),
                      capabilities |->
                          PyDict(<<"tools">>,
                                 [tools |-> PyDict(<<"listChanged">>,
                                                   [listChanged |-> PyBool(FALSE)])]),
                      serverInfo |->
                          PyDict(<<"name", "version">>,
                                 [name |-> PyStr("Python MCP Toolbox"),
                                  version |-> PyStr("1.0.0")])])])

\* _handle_notifications answering with no result
NotificationsNoResult(request) ==
    McpResponse([jsonrpc |-> JsonRpc, id |-> request.id])

_handle_notifications(request) ==
    McpResponse([jsonrpc |-> JsonRpc, id |-> request.id, result |-> EmptyDict])

ToolsetNotFound(request, toolset_name) ==
    McpResponse([jsonrpc |-> JsonRpc, id |-> request.id,
                 error |-> ErrorObject(INVALID_PARAMS,
                                       "Toolset not found: " \o toolset_name)])

_handle_list_tools(request, toolset_name, all_toolsets) ==
    IF toolset_name \notin DOMAIN all_toolsets.vals
    THEN ToolsetNotFound(request, toolset_name)
    ELSE McpResponse([jsonrpc |-> JsonRpc, id |-> request.id,
                      result |-> PyDict(<<"tools">>,
                          [tools |-> get_mcp_tools_list(all_toolsets.vals[toolset_name])])])

\* bool(x) of a value: None, zero, and the empty string, list and dict are false
Truthy(p) ==
    CASE p.t = "None" -> FALSE
      [] p.t = "str" -> p.v # ""
      [] p.t = "int" -> p.n # 0
      [] p.t = "bool" -> p.b
      [] p.t = "list" -> Len(p.items) > 0
      [] p.t = "dict" -> Len(p.keys) > 0
      [] OTHER -> TRUE

\* _handle_call_tool resolving the tool in the default toolset, whatever the
\* toolset of the request
CallToolResolveUnscoped(request, toolset_name, all_toolsets) ==
    LET params == IF Truthy(request.params) THEN request.params ELSE EmptyDict IN
    IF params.t # "dict"
    THEN Done(Raise("AttributeError", "object has no attribute 'get'"))
    ELSE LET tool_name == DictGet(params, "name", PyNone)
             arguments == DictGet(params, "arguments", EmptyDict) IN
         IF toolset_name \notin DOMAIN all_toolsets.vals
         THEN Done(ToolsetNotFound(request, toolset_name))
         ELSE LET toolset == all_toolsets.vals[""]
                  has == has_tool(toolset, tool_name) IN
              IF has.raised THEN Done(has)
              ELSE IF ~has.value
              THEN Done(McpResponse([jsonrpc |-> JsonRpc, id |-> request.id,
                        error |-> ErrorObject(INVALID_PARAMS,
                            "Tool not found in toolset: " \o Str(tool_name))]))
              ELSE Invoke(get_tool(toolset, tool_name), arguments)

\* _handle_call_tool up to await tool.invoke(arguments)
CallToolResolve(request, toolset_name, all_toolsets) ==
    LET params == IF Truthy(request.params) THEN request.params ELSE EmptyDict IN
    IF params.t # "dict"
    THEN Done(Raise("AttributeError", "object has no attribute 'get'"))
    ELSE LET tool_name == DictGet(params, "name", PyNone)
             arguments == DictGet(params, "arguments", EmptyDict) IN
         IF toolset_name \notin DOMAIN all_toolsets.vals
         THEN Done(ToolsetNotFound(request, toolset_name))
         ELSE LET toolset == all_toolsets.vals[toolset_name]
                  has == has_tool(toolset, tool_name) IN
              IF has.raised THEN Done(has)
              ELSE IF ~has.value
              THEN Done(McpResponse([jsonrpc |-> JsonRpc, id |-> request.id,
                        error |-> ErrorObject(INVALID_PARAMS,
                            "Tool not found in toolset: " \o Str(tool_name))]))
              ELSE Invoke(get_tool(toolset, tool_name), arguments)

TextContent(text) ==
    PyList(<<PyDict(<<"type", "text">>, [type |-> PyStr("text"), text |-> PyStr(text)])>>)

\* _handle_call_tool without its except block: the tool's exception propagates
CallToolFinishNoExcept(request, invoked) ==
    IF invoked.raised THEN invoked
    ELSE McpResponse([jsonrpc |-> JsonRpc, id |-> request.id,
             result |-> PyDict(<<"content">>,
                 [content |-> TextContent(json_dumps(invoked.value))])])

\* _handle_call_tool flagging every result, a success as isError false
CallToolFinishFlagged(request, invoked) ==
    McpResponse([jsonrpc |-> JsonRpc, id |-> request.id,
        result |-> PyDict(<<"content", "isError">>,
            [content |-> TextContent(IF invoked.raised THEN invoked.message
                                     ELSE json_dumps(invoked.value)),
             isError |-> PyBool(invoked.raised)])])

\* _handle_call_tool from the return of tool.invoke: the try block, then the
\* except block when the try block raised
CallToolFinish(request, invoked) ==
    LET tried == IF invoked.raised THEN invoked
                 ELSE McpResponse([jsonrpc |-> JsonRpc, id |-> request.id,
                          result |-> PyDict(<<"content">>,
                              [content |-> TextContent(json_dumps(invoked.value))])]) IN
    IF ~tried.raised THEN tried
    ELSE McpResponse([jsonrpc |-> JsonRpc, id |-> request.id,
             result |-> PyDict(<<"content", "isError">>,
                 [content |-> TextContent(tried.message), isError |-> PyBool(TRUE)])])

\* _process_request refusing every method but initialize and
\* notifications/initialized until the initialized flag is set
ProcessRequestGated(request, toolset_name, all_toolsets) ==
    IF /\ ~initialized
       /\ request.method \notin {PyStr("initialize"), PyStr("notifications/initialized")}
    THEN Done(Return(PyDict(<<"jsonrpc", "id", "result">>,
                            [jsonrpc |-> JsonRpc, id |-> request.id,
                             result |-> PyDict(<<"content", "isError">>,
                                 [content |-> TextContent("Server not initialized"),
                                  isError |-> PyBool(TRUE)])])))
    ELSE CASE request.method = PyStr("initialize") -> Done(_handle_initialize(request))
           [] request.method = PyStr("notifications/initialized") ->
                  Done(_handle_notifications(request))
           [] request.method = PyStr("tools/list") ->
                  Done(_handle_list_tools(request, toolset_name, all_toolsets))
           [] request.method = PyStr("tools/call") ->
                  CallToolResolve(request, toolset_name, all_toolsets)
           [] OTHER ->
                  Done(McpResponse([jsonrpc |-> JsonRpc, id |-> request.id,
                           error |-> ErrorObject(METHOD_NOT_FOUND,
                               "Method not found: " \o Str(request.method))]))

\* _process_request
_process_request(request, toolset_name, all_toolsets) ==
    CASE request.method = PyStr("initialize") -> Done(_handle_initialize(request))
      [] request.method = PyStr("notifications/initialized") ->
             Done(_handle_notifications(request))
      [] request.method = PyStr("tools/list") ->
             Done(_handle_list_tools(request, toolset_name, all_toolsets))
      [] request.method = PyStr("tools/call") ->
             CallToolResolve(request, toolset_name, all_toolsets)
      [] OTHER ->
             Done(McpResponse([jsonrpc |-> JsonRpc, id |-> request.id,
                      error |-> ErrorObject(METHOD_NOT_FOUND,
                          "Method not found: " \o Str(request.method))]))

\* handle_request: the except block
HandleRequestExcept(e) ==
    LET error_response ==
            McpResponse([jsonrpc |-> JsonRpc, id |-> PyNone,
                         error |-> ErrorObject(INTERNAL_ERROR, e.message)]) IN
    IF error_response.raised THEN error_response
    ELSE Return(ToJson(error_response.value))

\* handle_request from the return of _process_request: the serialized
\* response (as the JSON document json.dumps writes), None, or an exception
HandleRequestEnd(processed) ==
    IF processed.raised THEN HandleRequestExcept(processed)
    ELSE IF processed.value.t # "None"
    THEN Return(ToJson(processed.value))
    ELSE Return(PyNone)

\* handle_request up to the return of _process_request or to the await of
\* tool.invoke
HandleRequestStart(request_data, toolset_name, all_toolsets) ==
    LET request_json == json_loads(request_data) IN
    IF request_json.raised THEN Done(HandleRequestExcept(request_json))
    ELSE LET request == McpRequest(request_json.value) IN
         IF request.raised THEN Done(HandleRequestExcept(request))
         ELSE LET step == _process_request(request.value, toolset_name, all_toolsets) IN
              IF step.k = "done" THEN Done(HandleRequestEnd(step.outcome))
              ELSE [step EXCEPT !.k = "invoke"] @@ [request |-> request.value]

\* _handle_initialize without self.initialized = True
RunsInitializeNever(request_data) == FALSE

\* the initialized flag set by initialize and by notifications/initialized
RunsInitializeOrNotified(request_data) ==
    LET request_json == json_loads(request_data) IN
    /\ ~request_json.raised
    /\ LET request == McpRequest(request_json.value) IN
       /\ ~request.raised
       /\ request.value.method \in {PyStr("initialize"),
                                    PyStr("notifications/initialized")}

\* whether the request makes _handle_initialize run
RunsInitialize(request_data) ==
    LET request_json == json_loads(request_data) IN
    /\ ~request_json.raised
    /\ LET request == McpRequest(request_json.value) IN
       /\ ~request.raised
       /\ request.value.method = PyStr("initialize")

----------------------------------------------------------------------------
(* server/http_server.py: the POST transport *)

HTTP_OK == 200

HTTP_NO_CONTENT == 204

HTTP_SERVER_ERROR == 500

\* SSESession.send_event without its test of the closed flag
SendEventToClosed(session, event_type, data) ==
    [session EXCEPT !.message_queue =
        Append(@, [event |-> event_type, data |-> data])]

\* SSESession.send_event
send_event(session, event_type, data) ==
    IF session.closed THEN session
    ELSE [session EXCEPT !.message_queue =
             Append(@, [event |-> event_type, data |-> data])]

\* handle_mcp_request mirroring the response onto every registered session,
\* as broadcast_to_sessions would
MirrorToEverySession(sessions, session_id, response_data) ==
    IF /\ ~response_data.raised
       /\ Truthy(session_id)
       /\ session_id.v \in DOMAIN sessions
       /\ response_data.value.t # "None"
    THEN [k \in DOMAIN sessions |->
             send_event(sessions[k], "message", FromJson(response_data.value))]
    ELSE sessions

\* handle_mcp_request from the return of handle_request: the sessions after
\* the response was mirrored onto the caller's SSE session
MirrorToSession(sessions, session_id, response_data) ==
    IF /\ ~response_data.raised
       /\ Truthy(session_id)
       /\ session_id.v \in DOMAIN sessions
       /\ response_data.value.t # "None"
    THEN [sessions EXCEPT ![session_id.v] =
             send_event(@, "message", FromJson(response_data.value))]
    ELSE sessions

\* handle_mcp_request answering an exception without status=500
HttpResponseAlwaysOk(response_data) ==
    IF response_data.raised
    THEN [status |-> HTTP_OK,
          body |-> ToJson(PyDict(<<"jsonrpc", "id", "error">>,
                      [jsonrpc |-> JsonRpc, id |-> PyNone,
                       error |-> PyDict(<<"code", "message", "data">>,
                           [code |-> PyInt(INTERNAL_ERROR),
                            message |-> PyStr("Internal error"),
                            data |-> PyStr(response_data.message)])]))]
    ELSE IF response_data.value.t # "None"
    THEN [status |-> HTTP_OK, body |-> response_data.value]
    ELSE [status |-> HTTP_NO_CONTENT, body |-> JNull]

\* handle_mcp_request from the return of handle_request: the HTTP response
HttpResponse(response_data) ==
    IF response_data.raised
    THEN [status |-> HTTP_SERVER_ERROR,
          body |-> ToJson(PyDict(<<"jsonrpc", "id", "error">>,
                      [jsonrpc |-> JsonRpc, id |-> PyNone,
                       error |-> PyDict(<<"code", "message", "data">>,
                           [code |-> PyInt(INTERNAL_ERROR),
                            message |-> PyStr("Internal error"),
                            data |-> PyStr(response_data.message)])]))]
    ELSE IF response_data.value.t # "None"
    THEN [status |-> HTTP_OK, body |-> response_data.value]
    ELSE [status |-> HTTP_NO_CONTENT, body |-> JNull]

\* no POST request is being served
IdlePost ==
    [pc |-> "idle", toolset_name |-> "", session_id |-> PyNone, body |-> JNull,
     request |-> PyNone, tool |-> PyNone, arguments |-> PyNone, invoked |-> <<>>,
     tool_outcome |-> PyNone, engine |-> PyNone, status |-> 0, reply |-> JNull]

\* the request served, once handle_request returned or raised
Replied(served, response_data) ==
    LET http == HttpResponse(response_data) IN
    [served EXCEPT !.pc = "replied", !.engine = response_data,
                   !.status = http.status, !.reply = http.body]

----------------------------------------------------------------------------
(* server/http_server.py: the SSE transport *)

\* SSESession.__init__; response is the stream, as the frames written to it
SSESession(session_id, response, toolset_name) ==
    [session_id |-> session_id, response |-> response, toolset_name |-> toolset_name,
     closed |-> FALSE, message_queue |-> <<>>]

\* self.sse_sessions[session_id] = session
RegistryPut(sessions, session_id, session) ==
    [k \in DOMAIN sessions \cup {session_id} |->
        IF k = session_id THEN session ELSE sessions[k]]

\* handle_sse_connection without its finally block
DeregisterSkipped(sessions, session_id) == sessions

\* handle_sse_connection, the finally block deleting every session
DeregisterAll(sessions, session_id) ==
    [k \in {} |-> sessions[k]]

\* handle_sse_connection, the finally block
Deregister(sessions, session_id) ==
    IF session_id \in DOMAIN sessions
    THEN [k \in DOMAIN sessions \ {session_id} |-> sessions[k]]
    ELSE sessions

\* handle_sse_connection building the URL without the toolset path segment
MessageEndpointUnscoped(proto, host, toolset_name, session_id) ==
    proto \o "://" \o host \o "/mcp" \o "?sessionId=" \o session_id

\* handle_sse_connection: the URL of the endpoint event
MessageEndpoint(proto, host, toolset_name, session_id) ==
    LET toolset_path == IF toolset_name # "" THEN "/" \o toolset_name ELSE "" IN
    proto \o "://" \o host \o "/mcp" \o toolset_path \o "?sessionId=" \o session_id

\* _write_sse_message: the frame of an event
SseFrame(event_type, data) ==
    LET data_str == IF data.t = "str" THEN data.v ELSE json_dumps(data) IN
    "event: " \o event_type \o "\ndata: " \o data_str \o "\n\n"

\* _write_sse_message: the frame is written, or the write raises and the
\* except block marks the session closed
_write_sse_message(session, event_type, data, written) ==
    IF written
    THEN [session EXCEPT !.response = Append(@, SseFrame(event_type, data))]
    ELSE [session EXCEPT !.closed = TRUE]

\* no event is being written
NoMessage == [event |-> "", data |-> PyNone]

\* a handle_sse_connection call at an await: of response.write, holding the
\* event it took from the queue ("write"), or of asyncio.sleep ("sleep")
HandlerAt(pc, message) ==
    [pc |-> pc, message |-> message]

\* process_queue taking the newest event of the queue first
QueueTestNewest(session) ==
    IF Len(session.message_queue) > 0
    THEN [session |-> [session EXCEPT !.message_queue =
                          SubSeq(@, 1, Len(@) - 1)],
          handler |-> HandlerAt("write",
                          session.message_queue[Len(session.message_queue)])]
    ELSE [session |-> session, handler |-> HandlerAt("sleep", NoMessage)]

\* process_queue taking the oldest event and discarding the rest of the queue
QueueTestDraining(session) ==
    IF Len(session.message_queue) > 0
    THEN [session |-> [session EXCEPT !.message_queue = <<>>],
          handler |-> HandlerAt("write", Head(session.message_queue))]
    ELSE [session |-> session, handler |-> HandlerAt("sleep", NoMessage)]

\* process_queue from its loop test to the next await: message_queue.get
\* returns the oldest event and its write starts, or the queue is empty,
\* process_queue returns and the handler sleeps
QueueTest(session) ==
    IF Len(session.message_queue) > 0
    THEN [session |-> [session EXCEPT !.message_queue = Tail(@)],
          handler |-> HandlerAt("write", Head(session.message_queue))]
    ELSE [session |-> session, handler |-> HandlerAt("sleep", NoMessage)]

\* handle_sse_connection has returned
HandlerReturned == HandlerAt("returned", NoMessage)

Running(handler) == handler.pc \in {"write", "sleep"}

----------------------------------------------------------------------------
(* server/server.py: attach_pre_hook and the invoke it installs *)

\* str.split(sep), for a separator of one character
RECURSIVE split(_, _)
split(s, sep) ==
    LET at == {i \in 1..Len(s) : SubSeq(s, i, i) = sep} IN
    IF at = {} THEN <<s>>
    ELSE LET i == CHOOSE i \in at : \A j \in at : i <= j IN
         <<SubSeq(s, 1, i - 1)>> \o split(SubSeq(s, i + 1, Len(s)), sep)

\* load_hook_from_path: the callable the path names
load_hook_from_path(path) == [t |-> "function", path |-> path]

\* the variable hook of attach_pre_hook before its first assignment
Unbound == [t |-> "unbound"]

\* create_tools handing back the tool objects of the run before
CreateToolsKeeping(configs, bound) ==
    Mapping(configs.keys,
            [n \in DOMAIN configs.vals |->
                IF n \in DOMAIN bound.vals THEN bound.vals[n] ELSE <<>>])

\* ServerConfig.create_tools, as the invoke of each tool it creates: a new
\* object per tool, whose invoke is the method of its class, under no closure
create_tools(configs, bound) ==
    Mapping(configs.keys, [n \in DOMAIN configs.vals |-> <<>>])

\* wrapped_invoke as attach_pre_hook defines it: its default arguments, and
\* the attach_pre_hook call whose variable hook its body reads
Closure(_hook, _datasource_ids, run) ==
    [_hook |-> _hook, _datasource_ids |-> _datasource_ids, run |-> run]

\* attach_pre_hook: the loop over config.tools. bound maps a tool to the
\* closures around its invoke, the outermost first
RECURSIVE AttachFrom(_, _, _, _, _)
AttachFrom(configs, i, bound, hook, run) ==
    IF i > Len(configs.keys) THEN [invokes |-> bound, hook |-> hook]
    ELSE LET tool == configs.keys[i]
             tool_config == configs.vals[tool]
             pre_hook == DictGet(tool_config, "pre_hook", PyNone)
             given_ids == DictGet(tool_config, "datasource_ids", PyNone) IN
         IF ~(Truthy(pre_hook) \/ Truthy(given_ids))
         THEN AttachFrom(configs, i + 1, bound, hook, run)
         ELSE LET loaded == IF Truthy(pre_hook) THEN load_hook_from_path(pre_hook.v)
                            ELSE PyNone
                  datasource_ids ==
                      IF Truthy(given_ids)
                      THEN LET ids == split(given_ids.v, ",") IN
                           PyList([j \in 1..Len(ids) |-> PyStr(ids[j])])
                      ELSE given_ids
                  wrapped_invoke == Closure(loaded, datasource_ids, run) IN
              AttachFrom(configs, i + 1,
                         Mapping(bound.keys,
                                 [n \in DOMAIN bound.vals |->
                                     IF n = tool THEN <<wrapped_invoke>> \o bound.vals[n]
                                     ELSE bound.vals[n]]),
                         loaded, run)

attach_pre_hook(configs, bound, run) == AttachFrom(configs, 1, bound, Unbound, run)

\* what awaiting the hook can do: return, or raise
HookOutcomes == { Return(PyNone), Raise("PermissionError", "denied by the pre-hook") }

\* run_hook(hook, params): every outcome it can have. A hook that is no
\* callable makes asyncio.to_thread raise
run_hook(hook, params) ==
    IF hook.t # "function"
    THEN { Raise("TypeError", "'NoneType' object is not callable") }
    ELSE HookOutcomes

\* get_column_descriptions: the descriptions of the metadata source, or the
\* error of a failed fetch
ColumnDescriptions ==
    { Return(PyDict(<<"n">>, [n |-> PyStr("how many")])),
      Raise("PostgresError", "relation \"column\" does not exist") }

\* resolve_column_descriptions
resolve_column_descriptions(column_list, column_descriptions) ==
    LET known == SelectSeq(column_list, LAMBDA col : col \in DOMAIN column_descriptions.vals) IN
    PyList([i \in 1..Len(known) |->
               PyDict(<<"column_name", "description">>,
                      [column_name |-> PyStr(known[i]),
                       description |-> column_descriptions.vals[known[i]]])])

\* wrapped_invoke from the return of _orig_invoke: every outcome of the
\* post-processing of one closure. appended tells whether result.append ran
PostProcessing(closure, result) ==
    IF ~Truthy(closure._datasource_ids)
    THEN { [outcome |-> Return(result), appended |-> FALSE] }
    ELSE IF result.t = "str"
    THEN { [outcome |-> IF Len(result.v) = 0
                        THEN Raise("IndexError", "string index out of range")
                        ELSE Raise("TypeError",
                                   "string indices must be integers, not 'str'"),
            appended |-> FALSE] }
    ELSE IF result.t # "list"
    THEN { [outcome |-> Raise("TypeError", "object is not subscriptable"),
            appended |-> FALSE] }
    ELSE IF Len(result.items) = 0
    THEN { [outcome |-> Raise("IndexError", "list index out of range"),
            appended |-> FALSE] }
    ELSE IF result.items[1].t # "dict"
    THEN { [outcome |-> Raise("TypeError", "result[0]['data'] cannot be read"),
            appended |-> FALSE] }
    ELSE IF "data" \notin DOMAIN result.items[1].vals
    THEN { [outcome |-> Raise("KeyError", "'data'"), appended |-> FALSE] }
    ELSE LET data == result.items[1].vals["data"] IN
         IF ~Truthy(data) THEN { [outcome |-> Return(result), appended |-> FALSE] }
         ELSE { IF fetched.raised THEN [outcome |-> fetched, appended |-> FALSE]
                ELSE [outcome |->
                         Return(PyList(Append(result.items,
                             PyDict(<<"column_descriptions">>,
                                 [column_descriptions |->
                                     resolve_column_descriptions(data.items[1].keys,
                                                                 fetched.value)])))),
                      appended |-> TRUE] :
                  fetched \in ColumnDescriptions }

\* what a tool.invoke(arguments) call has done so far
Event(e, hook, params, raised) ==
    [e |-> e, hook |-> hook, params |-> params, raised |-> raised]

\* no tool.invoke call is running
IdleCall ==
    [pc |-> "idle", tool |-> "", arguments |-> PyNone, layer |-> 0, trace |-> <<>>,
     result |-> PyNone, response |-> PyNone]

\* the tools/call request behind a tool.invoke call
CallRequest(name, arguments) ==
    [jsonrpc |-> JsonRpc, method |-> PyStr("tools/call"), id |-> PyInt(1),
     params |-> PyDict(<<"name", "arguments">>,
                       [name |-> PyStr(name), arguments |-> arguments])]

\* tool.invoke returned or raised: _handle_call_tool builds the response
CallDone(running, invoked) ==
    [running EXCEPT !.pc = "done", !.result = invoked,
        !.response = CallToolFinish(CallRequest(running.tool, running.arguments),
                                    invoked)]

----------------------------------------------------------------------------
(* the configurations and the requests *)

MaxToolsetLen == 2

ToolNames == {"echo", "query"}

\* the registries create_tools can build
Registries ==
    { Mapping(<<"echo", "query">>, [echo |-> EchoTool, query |-> QueryTool]) }

\* the tool names a toolset entry can list: the registered ones and a stranger
ConfigToolNames == ToolNames \cup {"ghost"}

NameLists ==
    UNION { [1..n -> ConfigToolNames] : n \in 0..MaxToolsetLen }

ListEntry(names) == PyList([i \in 1..Len(names) |-> PyStr(names[i])])

\* the entries of the toolsets section: a bare list, or an object with the
\* list under tools or under tool_names
ToolsetEntries ==
    { ListEntry(names) : names \in NameLists }
    \cup { PyDict(<<"tools", "description">>,
                  [tools |-> ListEntry(names), description |-> PyStr("some tools")]) :
             names \in NameLists }
    \cup { PyDict(<<"tool_names">>, [tool_names |-> ListEntry(names)]) :
             names \in NameLists }
    \cup { PyDict(<<"description">>, [description |-> PyStr("no tool")]) }

\* the toolsets sections: the empty name and the name ts, each declared or not
ToolsetConfigs ==
    { EmptyMapping }
    \cup { Mapping(<<"">>, [n \in {""} |-> e]) : e \in ToolsetEntries }
    \cup { Mapping(<<"ts">>, [n \in {"ts"} |-> e]) : e \in ToolsetEntries }
    \cup { Mapping(<<"ts", "">>,
                    [n \in {"ts", ""} |-> IF n = "" THEN e ELSE ListEntry(<<"echo">>)]) :
             e \in { ListEntry(names) : names \in NameLists } }

\* the toolset names of the request paths: POST /mcp, /mcp/ts, /mcp/nope
PathToolsetNames == {"", "ts", "nope"}

\* the sessionId query parameter
QuerySessionIds == {PyNone, PyStr("s1")}

Absent == [t |-> "absent"]

\* a JSON object of the members that are given
ObjectOf(order, members) ==
    LET present == SelectSeq(order, LAMBDA k : members[k].t # "absent") IN
    JObject(present, [k \in Range(present) |-> members[k]])

RequestObject(jsonrpc, method, id, params, extra) ==
    ObjectOf(<<"jsonrpc", "method", "id", "params", "extra">>,
             [jsonrpc |-> jsonrpc, method |-> method, id |-> id,
              params |-> params, extra |-> extra])

RequestIds == {Absent, JNull, JString("a")}

OtherMethods ==
    {"initialize", "notifications/initialized", "tools/list", "resources/list"}

CallNames ==
    {Absent, JString("echo"), JString("query"), JString("ghost"),
     JArray(<<JString("echo")>>)}

CallArguments ==
    {Absent, JObject(<<"message">>, [message |-> JString("hi")]),
     JObject(<<"other">>, [other |-> JString("x")])}

CallParams ==
    {Absent, JNull, JArray(<<JNumber(1)>>)}
    \cup { ObjectOf(<<"name", "arguments">>, [name |-> n, arguments |-> a]) :
             n \in CallNames, a \in CallArguments }

WellFormedBodies ==
    { RequestObject(JString("2.0"), JString(m), i, Absent, Absent) :
        m \in OtherMethods, i \in RequestIds }
    \cup { RequestObject(JString("2.0"), JString("tools/call"), i, q, Absent) :
             i \in RequestIds, q \in CallParams }

MalformedBodies ==
    { Garbage("not json"), Garbage(""), JArray(<<JNumber(1)>>),
      RequestObject(Absent, JString("tools/list"), JString("a"), Absent, Absent),
      RequestObject(JString("2.0"), Absent, JString("a"), Absent, Absent),
      RequestObject(JString("2.0"), JString("tools/list"), JString("a"), Absent, JNumber(1)) }

RequestBodies == WellFormedBodies \cup MalformedBodies

----------------------------------------------------------------------------
(* the state machine *)

\* the parts of the server a specification leaves where the constructor put them
NotRun == [t |-> "not run"]

PureIdle ==
    /\ parameter_list = <<>>
    /\ given_values = EmptyDict
    /\ validated_values = NotRun
    /\ mcp_schema = NotRun
    /\ validated_defaults = NotRun

\* the tools section of a server without hooks
PlainToolConfigs ==
    Mapping(<<"echo", "query">>,
            [n \in {"echo", "query"} |->
                PyDict(<<"kind">>, [kind |-> PyStr(IF n = "echo" THEN "echo"
                                                  ELSE "mysql-sql")])])

HookIdle ==
    /\ tool_configs = PlainToolConfigs
    /\ invokes = EmptyMapping
    /\ hook_cells = <<>>
    /\ call = IdleCall

StdioIdle ==
    /\ stdin = <<>>
    /\ stdout = <<>>
    /\ stdio = [pc |-> "off"]

Init ==
    /\ PureIdle /\ HookIdle /\ StdioIdle
    /\ phase = "boot"
    /\ toolset_configs \in ToolsetConfigs
    /\ tools \in Registries
    /\ toolsets = EmptyMapping
    /\ initialized = FALSE
    /\ sse_sessions = [sid \in {} |-> PyNone]
    /\ sse_handlers = [sid \in {} |-> PyNone]
    /\ post = IdlePost

\* ToolboxServer.initialize from create_tools on: attach_pre_hook on the new
\* tools, create_toolsets, then McpServer(tools, toolsets)
Initialize ==
    LET attached == attach_pre_hook(tool_configs, create_tools(tool_configs, invokes),
                                    Len(hook_cells) + 1)
        made == create_toolsets(toolset_configs, tools) IN
    /\ invokes' = attached.invokes
    /\ hook_cells' = Append(hook_cells, attached.hook)
    /\ IF made.raised
       THEN /\ phase' = "failed"
            /\ UNCHANGED toolsets
       ELSE /\ phase' = "serving"
            /\ toolsets' = McpServerToolsets(tools, made.value)

\* ToolboxServer.initialize, at the start of the server
Startup ==
    /\ phase = "boot"
    /\ Initialize
    /\ UNCHANGED <<toolset_configs, tools, initialized, sse_sessions, sse_handlers,
                   post, tool_configs, call>>
    /\ UNCHANGED <<pure_vars, stdio_vars>>

\* handle_mcp_request making a toolset of all tools for a toolset name the
\* toolset map does not hold
PostRequestRegistering(toolset_name, session_id, body) ==
    /\ phase = "serving"
    /\ post.pc = "idle"
    /\ LET step == HandleRequestStart(body, toolset_name, toolsets)
           served == [IdlePost EXCEPT !.toolset_name = toolset_name,
                                      !.session_id = session_id, !.body = body] IN
       /\ initialized' = (initialized \/ RunsInitialize(body))
       /\ IF step.k = "invoke"
          THEN /\ post' = [served EXCEPT !.pc = "invoking", !.request = step.request,
                                         !.tool = step.tool,
                                         !.arguments = step.arguments,
                                         !.invoked = <<step.tool.name>>]
               /\ UNCHANGED sse_sessions
          ELSE /\ post' = Replied(served, step.outcome)
               /\ sse_sessions' = MirrorToSession(sse_sessions, session_id, step.outcome)
    /\ toolsets' = IF toolset_name \in DOMAIN toolsets.vals THEN toolsets
                   ELSE MappingSet(toolsets, toolset_name,
                                   Toolset(toolset_name, tools, PyNone))
    /\ UNCHANGED <<phase, toolset_configs, tools, sse_handlers>>
    /\ UNCHANGED <<pure_vars, hook_vars, stdio_vars>>

\* handle_mcp_request, from the arrival of the request to its response or to
\* the await of tool.invoke
PostRequest(toolset_name, session_id, body) ==
    /\ phase = "serving"
    /\ post.pc = "idle"
    /\ LET step == HandleRequestStart(body, toolset_name, toolsets)
           served == [IdlePost EXCEPT !.toolset_name = toolset_name,
                                      !.session_id = session_id, !.body = body] IN
       /\ initialized' = (initialized \/ RunsInitialize(body))
       /\ IF step.k = "invoke"
          THEN /\ post' = [served EXCEPT !.pc = "invoking", !.request = step.request,
                                         !.tool = step.tool,
                                         !.arguments = step.arguments,
                                         !.invoked = <<step.tool.name>>]
               /\ UNCHANGED sse_sessions
          ELSE /\ post' = Replied(served, step.outcome)
               /\ sse_sessions' = MirrorToSession(sse_sessions, session_id, step.outcome)
    /\ UNCHANGED <<phase, toolset_configs, tools, toolsets, sse_handlers>>
    /\ UNCHANGED <<pure_vars, hook_vars, stdio_vars>>

\* handle_mcp_request, from the return of tool.invoke to the response
ToolCompletes ==
    /\ post.pc = "invoking"
    /\ \E invoked \in ToolInvoke(post.tool, post.arguments) :
          LET response_data == HandleRequestEnd(CallToolFinish(post.request, invoked)) IN
          /\ post' = Replied([post EXCEPT !.tool_outcome = invoked], response_data)
          /\ sse_sessions' = MirrorToSession(sse_sessions, post.session_id, response_data)
    /\ UNCHANGED <<phase, toolset_configs, tools, toolsets, initialized, sse_handlers>>
    /\ UNCHANGED <<pure_vars, hook_vars, stdio_vars>>

\* the client has read the response
PostClose ==
    /\ post.pc = "replied"
    /\ post' = IdlePost
    /\ UNCHANGED <<phase, toolset_configs, tools, toolsets, initialized, sse_sessions,
                   sse_handlers>>
    /\ UNCHANGED <<pure_vars, hook_vars, stdio_vars>>

Next ==
    \/ Startup
    \/ \E toolset_name \in PathToolsetNames, session_id \in QuerySessionIds,
          body \in RequestBodies : PostRequest(toolset_name, session_id, body)
    \/ ToolCompletes
    \/ PostClose

Spec == Init /\ [][Next]_vars

----------------------------------------------------------------------------
(* the state machine of the SSE sessions *)

\* the events the registered sessions hold when a POST request is taken,
\* their endpoint events included
MaxEvents == 3

\* the values uuid.uuid4 draws; a draw never repeats an earlier one
SessionIds == {"s1", "s2"}

\* the scheme and the Host header of the GET request
RequestProto == "http"

RequestHost == "127.0.0.1:5000"

\* the toolset names of the SSE and POST paths
SsePathToolsetNames == {"", "ts"}

SseQuerySessionIds == {PyStr(sid) : sid \in SessionIds}

\* tools/list, the initialized notification, a tools/call of echo, and a
\* method the engine does not know
SseRequestBodies ==
    { RequestObject(JString("2.0"), JString("tools/list"), JString("a"), Absent, Absent),
      RequestObject(JString("2.0"), JString("notifications/initialized"), Absent, Absent,
                    Absent),
      RequestObject(JString("2.0"), JString("tools/call"), JString("a"),
                    ObjectOf(<<"name", "arguments">>,
                             [name |-> JString("echo"),
                              arguments |-> JObject(<<"message">>,
                                                    [message |-> JString("hi")])]),
                    Absent),
      RequestObject(JString("2.0"), JString("resources/list"), JString("a"), Absent, Absent) }

\* one named toolset holding echo, next to the default toolset of every tool
SseToolsetConfigs ==
    { Mapping(<<"ts">>, [n \in {"ts"} |-> ListEntry(<<"echo">>)]) }

\* the events the session has accepted: written, being written, and queued
Accepted(session_id) ==
    IF session_id \in DOMAIN sse_sessions
    THEN Len(sse_sessions[session_id].response)
         + (IF sse_handlers[session_id].pc = "write" THEN 1 ELSE 0)
         + Len(sse_sessions[session_id].message_queue)
    ELSE 0

RECURSIVE Sum(_, _)
Sum(f, S) ==
    IF S = {} THEN 0
    ELSE LET x == CHOOSE x \in S : TRUE IN f[x] + Sum(f, S \ {x})

AcceptedByAll == Sum([sid \in SessionIds |-> Accepted(sid)], SessionIds)

SseInit ==
    /\ PureIdle /\ HookIdle /\ StdioIdle
    /\ phase = "boot"
    /\ toolset_configs \in SseToolsetConfigs
    /\ tools \in Registries
    /\ toolsets = EmptyMapping
    /\ initialized = FALSE
    /\ sse_sessions = [sid \in {} |-> PyNone]
    /\ sse_handlers = [sid \in {} |-> PyNone]
    /\ post = IdlePost

\* handle_sse_connection from the GET request to its first write: the session
\* is registered, accepts the endpoint event, and process_queue takes it
SseConnect(toolset_name, session_id) ==
    /\ phase = "serving"
    /\ session_id \notin DOMAIN sse_handlers
    /\ LET session == SSESession(session_id, <<>>, toolset_name)
           message_endpoint ==
               MessageEndpoint(RequestProto, RequestHost, toolset_name, session_id)
           greeted == send_event(session, "endpoint", PyStr(message_endpoint))
           next == QueueTest(greeted) IN
       /\ sse_sessions' = RegistryPut(sse_sessions, session_id, next.session)
       /\ sse_handlers' = RegistryPut(sse_handlers, session_id, next.handler)
    /\ UNCHANGED <<phase, toolset_configs, tools, toolsets, initialized, post>>
    /\ UNCHANGED <<pure_vars, hook_vars, stdio_vars>>

\* process_queue: response.write returns, or raises (a broken connection);
\* then the loop test of process_queue. A connection stays broken: once a
\* write has raised, which is what sets closed, every later write raises
SseWrite(session_id, written) ==
    /\ session_id \in DOMAIN sse_handlers
    /\ sse_handlers[session_id].pc = "write"
    /\ written => ~sse_sessions[session_id].closed
    /\ LET handler == sse_handlers[session_id]
           session == _write_sse_message(sse_sessions[session_id], handler.message.event,
                                         handler.message.data, written)
           next == QueueTest(session) IN
       /\ sse_sessions' = [sse_sessions EXCEPT ![session_id] = next.session]
       /\ sse_handlers' = [sse_handlers EXCEPT ![session_id] = next.handler]
    /\ UNCHANGED <<phase, toolset_configs, tools, toolsets, initialized, post>>
    /\ UNCHANGED <<pure_vars, hook_vars, stdio_vars>>

\* handle_sse_connection: asyncio.sleep returns; the loop ends and the finally
\* block runs when the session is closed, process_queue runs when it is not
SseWake(session_id) ==
    /\ session_id \in DOMAIN sse_handlers
    /\ sse_handlers[session_id].pc = "sleep"
    /\ LET session == sse_sessions[session_id] IN
       IF session.closed
       THEN /\ sse_sessions' = Deregister(sse_sessions, session_id)
            /\ sse_handlers' = [sse_handlers EXCEPT ![session_id] = HandlerReturned]
       ELSE LET next == QueueTest(session) IN
            /\ next.handler.pc = "write"
            /\ sse_sessions' = [sse_sessions EXCEPT ![session_id] = next.session]
            /\ sse_handlers' = [sse_handlers EXCEPT ![session_id] = next.handler]
    /\ UNCHANGED <<phase, toolset_configs, tools, toolsets, initialized, post>>
    /\ UNCHANGED <<pure_vars, hook_vars, stdio_vars>>

\* the handler is cancelled at its await (the server drops the connection's
\* task): CancelledError passes both except blocks, the finally block runs
SseCancelled(session_id) ==
    /\ session_id \in DOMAIN sse_handlers
    /\ Running(sse_handlers[session_id])
    /\ sse_sessions' = Deregister(sse_sessions, session_id)
    /\ sse_handlers' = [sse_handlers EXCEPT ![session_id] = HandlerReturned]
    /\ UNCHANGED <<phase, toolset_configs, tools, toolsets, initialized, post>>
    /\ UNCHANGED <<pure_vars, hook_vars, stdio_vars>>

\* a POST request, taken while the sessions hold few events
SsePost(toolset_name, session_id, body) ==
    /\ AcceptedByAll < MaxEvents
    /\ PostRequest(toolset_name, session_id, body)

SseNext ==
    \/ Startup
    \/ \E toolset_name \in SsePathToolsetNames, session_id \in SseQuerySessionIds,
          body \in SseRequestBodies : SsePost(toolset_name, session_id, body)
    \/ ToolCompletes
    \/ PostClose
    \/ \E toolset_name \in SsePathToolsetNames, session_id \in SessionIds :
          SseConnect(toolset_name, session_id)
    \/ \E session_id \in SessionIds, written \in BOOLEAN : SseWrite(session_id, written)
    \/ \E session_id \in SessionIds : SseWake(session_id)
    \/ \E session_id \in SessionIds : SseCancelled(session_id)

SseSpec == SseInit /\ [][SseNext]_vars

\* the event loop runs every handler that is ready: a write and a sleep that
\* can return do return
SseFairness ==
    \A session_id \in SessionIds :
        /\ WF_vars(\E written \in BOOLEAN : SseWrite(session_id, written))
        /\ WF_vars(SseWake(session_id))

\* the requests of the runs checked for progress: tools/list alone, which is
\* answered within one step
SseFairRequestBodies ==
    { RequestObject(JString("2.0"), JString("tools/list"), JString("a"), Absent, Absent) }

SseFairNext ==
    \/ Startup
    \/ \E toolset_name \in SsePathToolsetNames, session_id \in SseQuerySessionIds,
          body \in SseFairRequestBodies : SsePost(toolset_name, session_id, body)
    \/ PostClose
    \/ \E toolset_name \in SsePathToolsetNames, session_id \in SessionIds :
          SseConnect(toolset_name, session_id)
    \/ \E session_id \in SessionIds, written \in BOOLEAN : SseWrite(session_id, written)
    \/ \E session_id \in SessionIds : SseWake(session_id)
    \/ \E session_id \in SessionIds : SseCancelled(session_id)

SseFairSpec == SseInit /\ [][SseFairNext]_vars /\ SseFairness

----------------------------------------------------------------------------
(* the state machine of a parameter set: tools/parameters.py applied to the *)
(* parameter definitions and the argument mappings below                    *)

MaxParams == 2

\* the name of the i-th parameter of a set
ParamName(i) == "p" \o ToString(i)

\* the keyword arguments of the parameter definitions, per type
Optional == [required |-> FALSE]

StringKw ==
    { [required |-> TRUE], Optional,
      [required |-> FALSE, default |-> PyStr("a")],
      [required |-> FALSE, enum |-> PyList(<<PyStr("a"), PyStr("b")>>)],
      [required |-> FALSE, default |-> PyStr("a"),
       enum |-> PyList(<<PyStr("a"), PyStr("b")>>)],
      [required |-> FALSE, min_length |-> PyInt(1)],
      [required |-> TRUE, max_length |-> PyInt(1)],
      [required |-> TRUE, pattern |-> PyStr("a")],
      [required |-> TRUE, enum |-> PyList(<<PyStr("a"), PyStr("b")>>),
       max_length |-> PyInt(1), pattern |-> PyStr("a")],
      [required |-> TRUE, max_length |-> PyInt(1), pattern |-> PyStr("a")],
      [required |-> TRUE, min_length |-> PyInt(1), pattern |-> PyStr("a")] }

IntegerKw ==
    { [required |-> TRUE], Optional,
      [required |-> FALSE, minimum |-> PyInt(1)],
      [required |-> FALSE, default |-> PyInt(2), maximum |-> PyInt(1)],
      [required |-> TRUE, minimum |-> PyInt(0), maximum |-> PyInt(1)],
      [required |-> TRUE, enum |-> PyList(<<PyInt(1), PyInt(2)>>)],
      [required |-> TRUE, enum |-> PyList(<<PyInt(1), PyInt(2)>>),
       minimum |-> PyInt(2)],
      [required |-> TRUE, minimum |-> PyInt(2), maximum |-> PyInt(0)] }

NumberKw ==
    { [required |-> TRUE], Optional, [required |-> TRUE, maximum |-> PyInt(1)] }

BooleanKw == { [required |-> TRUE], Optional }

ArrayKw(name) ==
    { [required |-> TRUE], Optional,
      [required |-> FALSE, min_length |-> PyInt(1)],
      [required |-> TRUE,
       items |-> Parameter(name \o "_item", "integer", "", [required |-> TRUE])],
      [required |-> TRUE, max_length |-> PyInt(1),
       items |-> Parameter(name \o "_item", "string", "", [required |-> TRUE])],
      [required |-> TRUE, min_length |-> PyInt(2),
       items |-> Parameter(name \o "_item", "integer", "", [required |-> TRUE])],
      [required |-> TRUE, max_length |-> PyInt(1),
       items |-> Parameter(name \o "_item", "integer", "", [required |-> TRUE])],
      [required |-> TRUE, min_length |-> PyInt(2), max_length |-> PyInt(0)] }

ObjectKw == { [required |-> TRUE], Optional }

MapKw ==
    { [required |-> TRUE], Optional,
      [required |-> FALSE, default |-> EmptyDict],
      [required |-> TRUE, value_type |-> PyStr("integer")],
      [required |-> TRUE, value_type |-> PyStr("array")] }

\* the definitions of the first parameter of a set
Shapes(name) ==
    { Parameter(name, "string", "a text", kw) : kw \in StringKw }
    \cup { Parameter(name, "integer", "a count", kw) : kw \in IntegerKw }
    \cup { Parameter(name, "number", "a ratio", kw) : kw \in NumberKw }
    \cup { Parameter(name, "boolean", "a flag", kw) : kw \in BooleanKw }
    \cup { Parameter(name, "array", "a list", kw) : kw \in ArrayKw(name) }
    \cup { Parameter(name, "object", "a record", kw) : kw \in ObjectKw }
    \cup { Parameter(name, "map", "a map", kw) : kw \in MapKw }

\* the definitions of the parameters that follow the first
FollowShapes(name) ==
    { Parameter(name, "string", "a text", [required |-> TRUE]),
      Parameter(name, "map", "a map", Optional) }

\* the parameter lists of n parameters
RECURSIVE ParameterLists(_)
ParameterLists(n) ==
    IF n = 0 THEN {<<>>}
    ELSE { Append(l, q) :
             l \in ParameterLists(n - 1),
             q \in (IF n = 1 THEN Shapes(ParamName(n)) ELSE FollowShapes(ParamName(n))) }

\* the values an argument mapping gives the first parameter
ArgValues ==
    { PyNone, PyStr("a"), PyStr(""), PyStr("ba"), PyStr("1"), PyStr("1.5"),
      PyStr("Yes"), PyInt(0), PyInt(1), PyInt(2), PyFloat(2), PyFloat(3),
      PyBool(TRUE), PyList(<<>>), PyList(<<PyInt(1)>>),
      PyList(<<PyStr("a"), PyStr("b")>>), PyList(<<PyInt(1), PyInt(2), PyInt(3)>>),
      PyList(<<PyInt(1), PyStr("a"), PyStr("b")>>), EmptyDict,
      PyDict(<<"k">>, [k |-> PyInt(1)]), PyDict(<<"k">>, [k |-> PyStr("a")]) }

\* the values it gives the parameters that follow
FollowValues == { PyStr("a"), PyNone }

\* d[key] = value on a dict that lacks the key
DictPut(d, key, value) ==
    PyDict(Append(d.keys, key),
           [k \in DOMAIN d.vals \cup {key} |-> IF k = key THEN value ELSE d.vals[k]])

\* the argument mappings over the first n parameter names
RECURSIVE ArgumentsOver(_)
ArgumentsOver(n) ==
    IF n = 0 THEN {EmptyDict}
    ELSE LET shorter == ArgumentsOver(n - 1) IN
         shorter \cup { DictPut(d, ParamName(n), v) :
                          d \in shorter,
                          v \in (IF n = 1 THEN ArgValues ELSE FollowValues) }

\* the argument mappings for a set of n parameters: each name given or not,
\* and a key no parameter declares given or not
ArgumentMappings(n) ==
    ArgumentsOver(n) \cup { DictPut(d, "extra", PyInt(1)) : d \in ArgumentsOver(n) }

\* the engine and the transports, before ToolboxServer.initialize
HttpIdle ==
    /\ phase = "boot"
    /\ toolset_configs = EmptyMapping
    /\ tools = EmptyMapping
    /\ toolsets = EmptyMapping
    /\ initialized = FALSE
    /\ sse_sessions = [sid \in {} |-> PyNone]
    /\ sse_handlers = [sid \in {} |-> PyNone]
    /\ post = IdlePost

ParamInit ==
    /\ HttpIdle /\ HookIdle /\ StdioIdle
    /\ \E n \in 0..MaxParams :
          /\ parameter_list \in ParameterLists(n)
          /\ given_values \in ArgumentMappings(n)
    /\ validated_values = NotRun
    /\ mcp_schema = NotRun
    /\ validated_defaults = NotRun

\* parameter_set.validate_values(values)
ValidateValues ==
    /\ validated_values = NotRun
    /\ validated_values' = validate_values(parameter_list, given_values)
    /\ UNCHANGED <<parameter_list, given_values, mcp_schema, validated_defaults>>
    /\ UNCHANGED <<http_vars, hook_vars, stdio_vars>>

\* parameter_set.to_mcp_schema()
ToMcpSchema ==
    /\ mcp_schema = NotRun
    /\ mcp_schema' = to_mcp_schema(parameter_list)
    /\ UNCHANGED <<parameter_list, given_values, validated_values, validated_defaults>>
    /\ UNCHANGED <<http_vars, hook_vars, stdio_vars>>

\* param.validate(param.default), for each parameter of the set
ValidateDefaults ==
    /\ validated_defaults = NotRun
    /\ validated_defaults' =
          [t |-> "run",
           outcomes |-> [i \in 1..Len(parameter_list) |->
               ParameterValidate(parameter_list[i], parameter_list[i].default)]]
    /\ UNCHANGED <<parameter_list, given_values, validated_values, mcp_schema>>
    /\ UNCHANGED <<http_vars, hook_vars, stdio_vars>>

ParamNext == ValidateValues \/ ToMcpSchema \/ ValidateDefaults

ParamSpec == ParamInit /\ [][ParamNext]_vars

----------------------------------------------------------------------------
(* the state machine of the wrapped invoke *)

MaxInits == 2

\* a tools section entry: the kind, and the hook and the data sources given
ToolConfig(kind, pre_hook, datasource_ids) ==
    DictOf(<<"kind", "pre_hook", "datasource_ids">>,
           [kind |-> PyStr(kind), pre_hook |-> pre_hook,
            datasource_ids |-> datasource_ids])

HookPaths == { [t |-> "absent"], PyStr("hooks:check") }

DatasourceIds == { [t |-> "absent"], PyStr("d1,d2") }

\* the tools sections: echo and query in either order, each with a pre-hook
\* or not, each with data sources or not
HookToolConfigs ==
    { Mapping(order,
              [n \in {"echo", "query"} |->
                  IF n = "echo" THEN ToolConfig("echo", echo_hook, echo_ids)
                  ELSE ToolConfig("mysql-sql", query_hook, ids)]) :
        order \in {<<"echo", "query">>, <<"query", "echo">>},
        echo_hook \in HookPaths, query_hook \in HookPaths,
        echo_ids \in DatasourceIds, ids \in DatasourceIds }

\* the registry create_tools builds from a tools section
RegistryOf(configs) ==
    Mapping(configs.keys,
            [n \in DOMAIN configs.vals |-> IF n = "echo" THEN EchoTool ELSE QueryTool])

\* the arguments of the calls
HookCallArguments ==
    { EmptyDict, PyDict(<<"message">>, [message |-> PyStr("hi")]) }

HookInit ==
    /\ PureIdle /\ StdioIdle
    /\ phase = "boot"
    /\ toolset_configs = EmptyMapping
    /\ tool_configs \in HookToolConfigs
    /\ tools = RegistryOf(tool_configs)
    /\ toolsets = EmptyMapping
    /\ initialized = FALSE
    /\ sse_sessions = [sid \in {} |-> PyNone]
    /\ sse_handlers = [sid \in {} |-> PyNone]
    /\ post = IdlePost
    /\ invokes = EmptyMapping
    /\ hook_cells = <<>>
    /\ call = IdleCall

\* ToolboxServer.initialize, run again on a server that is serving
Reinitialize ==
    /\ phase = "serving"
    /\ call.pc = "idle"
    /\ Len(hook_cells) < MaxInits
    /\ Initialize
    /\ UNCHANGED <<toolset_configs, tools, initialized, sse_sessions, sse_handlers,
                   post, tool_configs, call>>
    /\ UNCHANGED <<pure_vars, stdio_vars>>

\* _handle_call_tool awaits tool.invoke(arguments)
HookCall(name, arguments) ==
    /\ phase = "serving"
    /\ call.pc = "idle"
    /\ name \in DOMAIN invokes.vals
    /\ call' = [IdleCall EXCEPT !.pc = "enter", !.tool = name, !.arguments = arguments,
                                !.layer = 1]
    /\ UNCHANGED <<http_vars, pure_vars, stdio_vars, tool_configs, invokes, hook_cells>>

\* wrapped_invoke starts: the test of the variable hook of attach_pre_hook
WrappedInvoke ==
    /\ call.pc = "enter"
    /\ call.layer <= Len(invokes.vals[call.tool])
    /\ LET closure == invokes.vals[call.tool][call.layer] IN
       call' = IF Truthy(hook_cells[closure.run])
               THEN [call EXCEPT !.pc = "hook"]
               ELSE [call EXCEPT !.layer = call.layer + 1]
    /\ UNCHANGED <<http_vars, pure_vars, stdio_vars, tool_configs, invokes, hook_cells>>

\* await run_hook(_hook, params) returns or raises
RunHook ==
    /\ call.pc = "hook"
    /\ LET closure == invokes.vals[call.tool][call.layer] IN
       \E ran \in run_hook(closure._hook, call.arguments) :
          LET seen == [call EXCEPT !.trace =
                          Append(call.trace, Event("run_hook", closure._hook,
                                                   call.arguments, ran.raised))] IN
          call' = IF ran.raised THEN CallDone(seen, ran)
                  ELSE [seen EXCEPT !.pc = "enter", !.layer = call.layer + 1]
    /\ UNCHANGED <<http_vars, pure_vars, stdio_vars, tool_configs, invokes, hook_cells>>

\* the invoke of the tool's class runs: it returns or raises
OrigInvoke ==
    /\ call.pc = "enter"
    /\ call.layer > Len(invokes.vals[call.tool])
    /\ \E invoked \in ToolInvoke(tools.vals[call.tool], call.arguments) :
          LET seen == [call EXCEPT !.trace =
                          Append(call.trace, Event("invoke", PyNone, call.arguments,
                                                   invoked.raised))] IN
          call' = IF invoked.raised \/ Len(invokes.vals[call.tool]) = 0
                  THEN CallDone(seen, invoked)
                  ELSE [seen EXCEPT !.pc = "post", !.layer = Len(invokes.vals[call.tool]),
                                    !.result = invoked]
    /\ UNCHANGED <<http_vars, pure_vars, stdio_vars, tool_configs, invokes, hook_cells>>

\* wrapped_invoke from the return of _orig_invoke to its own return
PostProcess ==
    /\ call.pc = "post"
    /\ LET closure == invokes.vals[call.tool][call.layer] IN
       \E processed \in PostProcessing(closure, call.result.value) :
          LET seen == IF ~processed.appended THEN call
                      ELSE [call EXCEPT !.trace =
                               Append(call.trace, Event("append", PyNone,
                                                        call.arguments, FALSE))] IN
          call' = IF processed.outcome.raised \/ call.layer = 1
                  THEN CallDone(seen, processed.outcome)
                  ELSE [seen EXCEPT !.layer = call.layer - 1,
                                    !.result = processed.outcome]
    /\ UNCHANGED <<http_vars, pure_vars, stdio_vars, tool_configs, invokes, hook_cells>>

\* the response of the tools/call is sent
HookCallClose ==
    /\ call.pc = "done"
    /\ call' = IdleCall
    /\ UNCHANGED <<http_vars, pure_vars, stdio_vars, tool_configs, invokes, hook_cells>>

HookNext ==
    \/ Startup
    \/ Reinitialize
    \/ \E name \in ToolNames, arguments \in HookCallArguments : HookCall(name, arguments)
    \/ WrappedInvoke
    \/ RunHook
    \/ OrigInvoke
    \/ PostProcess
    \/ HookCallClose

HookSpec == HookInit /\ [][HookNext]_vars

----------------------------------------------------------------------------
(* the state machine of the stdio loop: ToolboxServer.serve_stdio *)

MaxLines == 2

\* a line of standard input: leading whitespace, a text, trailing whitespace
\* with the newline
Line(lead, body, trail) == [lead |-> lead, body |-> body, trail |-> trail]

\* what readline returns at end-of-input: the empty string
EofLine == Line("", Garbage(""), "")

\* line.strip()
strip(line) == line.body

\* not line
IsEmptyString(line) == line.lead = "" /\ line.body = Garbage("") /\ line.trail = ""

\* the lines a client writes: requests that succeed, requests that fail, text
\* that is no JSON, a padded request, a blank line and a line of blanks
StdioLines ==
    { Line("", RequestObject(JString("2.0"), JString("tools/list"), JString("a"),
                             Absent, Absent), "\n"),
      Line("", RequestObject(JString("2.0"), JString("notifications/initialized"),
                             Absent, Absent, Absent), "\n"),
      Line("", RequestObject(JString("2.0"), JString("tools/call"), JString("a"),
                  ObjectOf(<<"name", "arguments">>,
                           [name |-> JString("echo"),
                            arguments |-> JObject(<<"message">>,
                                                  [message |-> JString("hi")])]),
                  Absent), "\n"),
      Line("", RequestObject(JString("2.0"), JString("resources/list"), JString("a"),
                             Absent, Absent), "\n"),
      Line("", Garbage("not json"), "\n"),
      Line(" ", RequestObject(JString("2.0"), JString("initialize"), JString("a"),
                              Absent, Absent), " \n"),
      Line("", Garbage(""), "\n"),
      Line("  ", Garbage(""), "\n") }

\* serve_stdio at its first readline
StdioLoop ==
    [pc |-> "read", lines |-> <<>>, eof |-> FALSE, handed |-> <<>>, errors |-> <<>>,
     request |-> PyNone, tool |-> PyNone, arguments |-> PyNone]

StdioInit ==
    /\ PureIdle /\ HookIdle
    /\ phase = "boot"
    /\ toolset_configs = EmptyMapping
    /\ tools \in Registries
    /\ toolsets = EmptyMapping
    /\ initialized = FALSE
    /\ sse_sessions = [sid \in {} |-> PyNone]
    /\ sse_handlers = [sid \in {} |-> PyNone]
    /\ post = IdlePost
    /\ stdin \in UNION { [1..n -> StdioLines] : n \in 0..MaxLines }
    /\ stdout = <<>>
    /\ stdio = StdioLoop

\* serve_stdio from the return of handle_request to the next readline: the
\* response is printed when there is one, the exception is reported on
\* standard error when handle_request raised
StdioAnswered(loop, response) ==
    /\ stdio' = IF response.raised
                THEN [loop EXCEPT !.pc = "read",
                                  !.errors = Append(loop.errors,
                                      "Error in STDIO mode: " \o response.message)]
                ELSE [loop EXCEPT !.pc = "read"]
    /\ stdout' = IF ~response.raised /\ response.value.t # "None"
                 THEN Append(stdout, [line |-> Len(loop.lines), text |-> response.value])
                 ELSE stdout

\* serve_stdio: readline returns; the loop ends on the empty string, and
\* hands any other line, stripped, to handle_request
StdioRead ==
    /\ phase = "serving"
    /\ stdio.pc = "read"
    /\ LET line == IF stdin = <<>> THEN EofLine ELSE Head(stdin) IN
       /\ stdin' = IF stdin = <<>> THEN stdin ELSE Tail(stdin)
       /\ IF IsEmptyString(line)
          THEN /\ stdio' = [stdio EXCEPT !.pc = "ended", !.eof = TRUE]
               /\ UNCHANGED <<stdout, initialized>>
          ELSE LET request_data == strip(line)
                   step == HandleRequestStart(request_data, "", toolsets)
                   loop == [stdio EXCEPT !.lines = Append(stdio.lines, line),
                               !.handed = Append(stdio.handed,
                                   [request_data |-> request_data, toolset_name |-> ""])] IN
               /\ initialized' = (initialized \/ RunsInitialize(request_data))
               /\ IF step.k = "invoke"
                  THEN /\ stdio' = [loop EXCEPT !.pc = "invoking",
                                       !.request = step.request, !.tool = step.tool,
                                       !.arguments = step.arguments]
                       /\ UNCHANGED stdout
                  ELSE StdioAnswered(loop, step.outcome)
    /\ UNCHANGED <<phase, toolset_configs, tools, toolsets, sse_sessions, sse_handlers,
                   post>>
    /\ UNCHANGED <<pure_vars, hook_vars>>

\* serve_stdio: the tool.invoke that handle_request awaits returns or raises
StdioToolCompletes ==
    /\ stdio.pc = "invoking"
    /\ \E invoked \in ToolInvoke(stdio.tool, stdio.arguments) :
          StdioAnswered([stdio EXCEPT !.request = PyNone, !.tool = PyNone,
                                      !.arguments = PyNone],
                        HandleRequestEnd(CallToolFinish(stdio.request, invoked)))
    /\ UNCHANGED <<stdin, http_vars, pure_vars, hook_vars>>

\* serve_stdio: KeyboardInterrupt at one of its awaits ends the loop
StdioInterrupt ==
    /\ phase = "serving"
    /\ stdio.pc \in {"read", "invoking"}
    /\ stdio' = [stdio EXCEPT !.pc = "ended"]
    /\ UNCHANGED <<stdin, stdout, http_vars, pure_vars, hook_vars>>

StdioNext ==
    \/ Startup
    \/ StdioRead
    \/ StdioToolCompletes
    \/ StdioInterrupt

StdioSpec == StdioInit /\ [][StdioNext]_vars

----------------------------------------------------------------------------
(* what a served request shows *)

\* the request has its HTTP response
Served == post.pc = "replied"

\* the envelope the body parses to, or the exception of parsing it
BodyRequest(body) ==
    LET request_json == json_loads(body) IN
    IF request_json.raised THEN request_json ELSE McpRequest(request_json.value)

\* the body is a JSON-RPC envelope
Parsed == Served /\ ~BodyRequest(post.body).raised

Method == BodyRequest(post.body).value.method

Params == BodyRequest(post.body).value.params

\* the id of the request as the client wrote it: null when it wrote none
BodyId == IF "id" \in DOMAIN post.body.vals THEN post.body.vals["id"] ELSE JNull

\* handle_request returned a serialized response
Returned == Served /\ ~post.engine.raised /\ post.engine.value.t = "object"

Response == post.engine.value

\* the member is there and is not null
HasPayload(doc, member) == member \in DOMAIN doc.vals /\ doc.vals[member] # JNull

\* a JSON-RPC error response with this code and this id
IsErrorResponse(doc, code, id) ==
    /\ HasPayload(doc, "error")
    /\ ~HasPayload(doc, "result")
    /\ doc.vals["error"].t = "object"
    /\ "code" \in DOMAIN doc.vals["error"].vals
    /\ doc.vals["error"].vals["code"] = JNumber(code)
    /\ "id" \in DOMAIN doc.vals
    /\ doc.vals["id"] = id

\* a JSON-RPC success response
IsResultResponse(doc) == HasPayload(doc, "result") /\ ~HasPayload(doc, "error")

UnknownToolset == post.toolset_name \notin DOMAIN toolsets.vals

\* the tool.invoke of the served request has raised / has returned
ToolRaised == Served /\ "raised" \in DOMAIN post.tool_outcome /\ post.tool_outcome.raised

ToolReturned == Served /\ "raised" \in DOMAIN post.tool_outcome /\ ~post.tool_outcome.raised

\* the content list of a tools/call result: one text element
OneText(text) == JArray(<<JObject(<<"type", "text">>,
                                  [type |-> JString("text"), text |-> JString(text)])>>)

----------------------------------------------------------------------------
(* C1: a tools/list or tools/call request under a toolset name that is no
   key of the toolset map is answered by a JSON-RPC error response with code
   -32602 and the request's id, and the POST transport does not answer 500. *)
C1_UnknownToolsetIsInvalidParams ==
    (Parsed /\ Method \in {PyStr("tools/list"), PyStr("tools/call")} /\ UnknownToolset)
    => /\ Returned
       /\ IsErrorResponse(Response, INVALID_PARAMS, BodyId)
       /\ post.status # HTTP_SERVER_ERROR

(* C2: when the tool.invoke of a tools/call raises, the engine returns a
   success envelope (a result, no error object) whose result has isError true
   and one text content element holding the exception's message, and the POST
   transport answers 200. *)
C2_ToolFailureIsData ==
    ToolRaised
    => /\ Returned
       /\ IsResultResponse(Response)
       /\ Response.vals["result"].keys = <<"content", "isError">>
       /\ Response.vals["result"].vals["isError"] = JBool(TRUE)
       /\ Response.vals["result"].vals["content"] = OneText(post.tool_outcome.message)
       /\ post.status = HTTP_OK
       /\ post.reply = Response

\* a tools/call whose tool raised has been answered
C2_Witness == ToolRaised /\ post.status = HTTP_OK

(* C3: a well-formed request whose method is none of initialize,
   notifications/initialized, tools/list, tools/call is answered by a
   serialized error response with code -32601 and the request's id. *)
C3_UnknownMethodIsMethodNotFound ==
    (Parsed /\ Method \notin {PyStr("initialize"), PyStr("notifications/initialized"),
                              PyStr("tools/list"), PyStr("tools/call")})
    => /\ Returned
       /\ IsErrorResponse(Response, METHOD_NOT_FOUND, BodyId)

(* C4: for a request text that is no JSON, or no envelope (a required field
   missing, an unexpected field), handle_request does not raise: it returns a
   serialized error response with code -32603, the exception text as message
   and id null. *)
C4_MalformedIsInternalError ==
    (Served /\ BodyRequest(post.body).raised)
    => /\ Returned
       /\ IsErrorResponse(Response, INTERNAL_ERROR, JNull)
       /\ Response.vals["error"].vals["message"]
              = JString(BodyRequest(post.body).message)

\* params.name of the served tools/call: None when there is none
CalledName == IF Params.t = "dict" THEN DictGet(Params, "name", PyNone) ELSE PyNone

(* C5: a tools/call under an existing toolset whose params.name is no member
   of that toolset is answered by an error response with code -32602 and the
   request's id, and no tool is invoked. *)
C5_ToolNotInToolsetIsInvalidParams ==
    (/\ Parsed /\ Method = PyStr("tools/call") /\ ~UnknownToolset
     /\ ~HasKey(toolsets.vals[post.toolset_name].tools, CalledName))
    => /\ Returned
       /\ IsErrorResponse(Response, INVALID_PARAMS, BodyId)
       /\ post.invoked = <<>>

\* the tools the configuration puts in the toolset of this name: the tools
\* its entry lists, and for the undeclared empty name every registered tool
Declared(name) == name \in DOMAIN toolset_configs.vals

Listed(name) ==
    LET tool_names == EntryToolNames(toolset_configs.vals[name]).items IN
    {tool_names[i].v : i \in 1..Len(tool_names)}

ScopeOf(name) ==
    IF Declared(name) THEN Listed(name)
    ELSE IF name = "" THEN Range(tools.keys) ELSE {}

\* a successful tools/list has been answered
Listing == Parsed /\ Method = PyStr("tools/list") /\ Returned /\ IsResultResponse(Response)

\* the tool names of the manifests of the tools/list response, in its order
ListedNames ==
    LET manifests == Response.vals["result"].vals["tools"].items IN
    [i \in 1..Len(manifests) |-> manifests[i].vals["name"].v]

\* the sequence holds each member of the set once and nothing else
ExactlyOnce(seq, set) == Range(seq) = set /\ Len(seq) = Cardinality(set)

(* C6: a tools/call handled under toolset T invokes only a tool the
   configuration puts in T, and a tools/list handled under T returns only
   manifests of such tools. *)
C6_ToolsetScoping ==
    /\ \A i \in 1..Len(post.invoked) : post.invoked[i] \in ScopeOf(post.toolset_name)
    /\ Listing => Range(ListedNames) \subseteq ScopeOf(post.toolset_name)

\* echo was invoked through ts, which does not hold the registered tool query
C6_Witness ==
    /\ Served /\ post.toolset_name = "ts" /\ post.invoked = <<"echo">>
    /\ "query" \in Range(tools.keys) /\ "query" \notin ScopeOf("ts")

(* C7, as claimed: under every startup configuration, also one that declares
   a toolset under the empty name, tools/list on the empty-name toolset
   returns exactly one manifest for every registered tool. *)
C7_DefaultListsEveryTool ==
    (Parsed /\ Method = PyStr("tools/list") /\ post.toolset_name = "")
    => /\ Listing
       /\ ExactlyOnce(ListedNames, Range(tools.keys))

(* C7, amended: tools/list on the empty-name toolset returns exactly one
   manifest for every registered tool when the configuration declares no
   toolset under the empty name, and exactly one manifest for every tool that
   declaration lists when it declares one. *)
C7_DefaultListsItsScope ==
    (Parsed /\ Method = PyStr("tools/list") /\ post.toolset_name = "")
    => /\ Listing
       /\ ExactlyOnce(ListedNames, IF Declared("") THEN Listed("") ELSE Range(tools.keys))

\* tools/list on the empty name listed every registered tool while a named
\* toolset of fewer tools exists
C7_Witness ==
    /\ Listing /\ post.toolset_name = "" /\ ~Declared("") /\ Declared("ts")
    /\ Listed("ts") # Range(tools.keys)
    /\ ExactlyOnce(ListedNames, Range(tools.keys))

(* C8: every response to a parsed request carries the request's id as it
   was given, and null when the request has no id member. *)
C8_IdEchoedOrNull ==
    (Parsed /\ Returned) => Response.vals["id"] = BodyId

(* C9: every serialized response handle_request returns holds the jsonrpc
   tag, an id, and exactly one of a result payload and an error object. *)
C9_ExactlyOnePayload ==
    Returned
    => /\ {"jsonrpc", "id"} \subseteq DOMAIN Response.vals
       /\ Response.vals["jsonrpc"] = JString("2.0")
       /\ HasPayload(Response, "result") # HasPayload(Response, "error")

\* the response to notifications/initialized has been returned
C9_Witness ==
    Parsed /\ Method = PyStr("notifications/initialized") /\ Returned

(* C10: when the tool.invoke of a tools/call returns, the result of the
   response has one text content element, whose text is the JSON text of the
   returned value, and no isError member; echo called through the empty-name
   toolset with message hi is answered with the JSON text of hi. *)
C10_ToolResultIsJsonText ==
    ToolReturned
    => /\ Returned
       /\ IsResultResponse(Response)
       /\ Response.vals["result"].keys = <<"content">>
       /\ Response.vals["result"].vals["content"]
              = OneText(JsonText(ToJson(post.tool_outcome.value)))
       /\ (/\ post.invoked = <<"echo">>
           /\ post.toolset_name = ""
           /\ post.arguments = PyDict(<<"message">>, [message |-> PyStr("hi")]))
          => Response.vals["result"].vals["content"] = OneText("\"hi\"")

\* echo, called through the empty-name toolset with message hi, has returned
C10_Witness ==
    /\ ToolReturned /\ post.invoked = <<"echo">> /\ post.toolset_name = ""
    /\ post.arguments = PyDict(<<"message">>, [message |-> PyStr("hi")])
    /\ post.tool_outcome = Return(PyStr("hi"))

----------------------------------------------------------------------------
(* what the SSE sessions show *)

Registered(session_id) == session_id \in DOMAIN sse_sessions

\* the events the session holds unwritten, oldest first: the event being
\* written, then the events of its queue
Pending(session_id) ==
    (IF sse_handlers[session_id].pc = "write"
     THEN <<sse_handlers[session_id].message>> ELSE <<>>)
    \o sse_sessions[session_id].message_queue

\* the frames written to the session's stream
Stream(session_id) == sse_sessions[session_id].response

\* the endpoint event of a session
EndpointEvent(session_id, toolset_name) ==
    [event |-> "endpoint",
     data |-> PyStr(MessageEndpoint(RequestProto, RequestHost, toolset_name, session_id))]

\* the message event of the response the engine returned to the served POST
MessageEvent(served) == [event |-> "message", data |-> FromJson(served.engine.value)]

FrameOf(e) == SseFrame(e.event, e.data)

\* this step answers the POST request being served
Answers == post.pc # "replied" /\ post'.pc = "replied"

(* C11: in every step, what a registered session B holds changes only by
   B's own events: nothing changes; or B's handler ends a write, and the
   oldest unwritten event leaves and its frame, if the write succeeded, is the
   one frame added to B's stream; or B has just connected and holds its
   endpoint event alone; or the step answers a POST that carries sessionId = B
   and the message event of that response is added last to B's unwritten
   events. The response to a POST carrying another sessionId reaches neither
   B's queue nor B's stream. *)
C11_NoCrossTalk ==
    [][\A b \in SessionIds :
          Registered(b)' =>
             IF ~Registered(b)
             THEN /\ Stream(b)' = <<>>
                  /\ Pending(b)' = <<EndpointEvent(b, sse_sessions'[b].toolset_name)>>
             ELSE \/ /\ Pending(b)' = Pending(b)
                     /\ Stream(b)' = Stream(b)
                  \/ /\ sse_handlers[b].pc = "write"
                     /\ Pending(b)' = Tail(Pending(b))
                     /\ \/ Stream(b)' = Stream(b)
                        \/ Stream(b)' = Append(Stream(b), FrameOf(Head(Pending(b))))
                  \/ /\ Answers
                     /\ post'.session_id = PyStr(b)
                     /\ ~post'.engine.raised
                     /\ post'.engine.value.t = "object"
                     /\ Pending(b)' = Append(Pending(b), MessageEvent(post'))
                     /\ Stream(b)' = Stream(b)]_vars

\* two sessions opened against different toolset names are registered, the
\* POST just answered carried the sessionId of one of them, and that one holds
\* the message event of its response while the other holds nothing but its
\* written endpoint frame
C11_Witness ==
    \E a \in SessionIds, b \in SessionIds :
        /\ a # b /\ Registered(a) /\ Registered(b)
        /\ sse_sessions[a].toolset_name # sse_sessions[b].toolset_name
        /\ post.pc = "replied" /\ post.session_id = PyStr(a) /\ ~post.engine.raised
        /\ Stream(a) = <<FrameOf(EndpointEvent(a, sse_sessions[a].toolset_name))>>
        /\ Pending(a) = <<MessageEvent(post)>>
        /\ Stream(b) = <<FrameOf(EndpointEvent(b, sse_sessions[b].toolset_name))>>
        /\ Pending(b) = <<>>

\* the endpoint frame as the client reads it: the absolute URL of the POST
\* endpoint under the toolset path segment, the session id as sessionId
ExpectedEndpointFrame(session_id, toolset_name) ==
    "event: endpoint\ndata: http://127.0.0.1:5000/mcp"
    \o (IF toolset_name = "" THEN "" ELSE "/" \o toolset_name)
    \o "?sessionId=" \o session_id \o "\n\n"

(* C12: every registered session is registered under its own id, an id no
   other connect drew, with the toolset name of its path (the one its endpoint
   URL embeds); the first frame of its stream is the endpoint frame, whose
   data is the POST URL with that toolset path segment and that session id as
   sessionId; while nothing is written yet and no write failed, the endpoint
   event is the next to be written, so no message frame precedes it. *)
C12_EndpointFirst ==
    \A b \in SessionIds :
        Registered(b) =>
            /\ sse_sessions[b].session_id = b
            /\ Running(sse_handlers[b])
            /\ sse_sessions[b].toolset_name \in SsePathToolsetNames
            /\ Stream(b) # <<>>
               => Stream(b)[1] = ExpectedEndpointFrame(b, sse_sessions[b].toolset_name)
            /\ (Stream(b) = <<>> /\ ~sse_sessions[b].closed)
               => /\ Pending(b) # <<>>
                  /\ FrameOf(Head(Pending(b)))
                        = ExpectedEndpointFrame(b, sse_sessions[b].toolset_name)

\* a session opened against ts has its endpoint frame and a message frame
\* written, in this order
C12_Witness ==
    \E b \in SessionIds :
        /\ Registered(b) /\ sse_sessions[b].toolset_name = "ts"
        /\ Len(Stream(b)) = 2
        /\ Stream(b)[1] = ExpectedEndpointFrame(b, "ts")
        /\ Stream(b)[2] # Stream(b)[1]

\* handle_sse_connection has returned for this session id
HandlerEnded(session_id) ==
    session_id \in DOMAIN sse_handlers /\ sse_handlers[session_id].pc = "returned"

\* the session is registered and its closed flag is set
ClosedRegistered(session_id) ==
    Registered(session_id) /\ sse_sessions[session_id].closed

(* C13: once handle_sse_connection has returned, its session id is no key
   of the registry; a step removes a session from the registry only as the
   last step of that session's own handler, which then has returned; and,
   the event loop running every ready handler, a registered session whose
   closed flag is set is eventually removed. *)
C13_ClosedOrEndedIsDeregistered ==
    /\ [](\A b \in SessionIds : HandlerEnded(b) => ~Registered(b))
    /\ [][\A b \in SessionIds :
            (Registered(b) /\ ~Registered(b)')
            => /\ Running(sse_handlers[b])
               /\ HandlerEnded(b)']_vars
    /\ \A b \in SessionIds : ClosedRegistered(b) ~> ~Registered(b)

\* one session's handler has returned and the session is gone from the
\* registry, while another session, closed by a failed write, is still
\* registered, its handler asleep
C13_Witness ==
    \E a \in SessionIds, b \in SessionIds :
        /\ HandlerEnded(b) /\ ~Registered(b)
        /\ ClosedRegistered(a) /\ sse_handlers[a].pc = "sleep"

\* this step is a transport error of the session: a write fails and sets its
\* closed flag, or its handler ends and removes it from the registry
TransportError(session_id) ==
    /\ Registered(session_id)
    /\ \/ ~Registered(session_id)'
       \/ sse_sessions'[session_id].closed /\ ~sse_sessions[session_id].closed

(* C14: a step in which a write of session A fails and marks it closed, or
   in which A is deregistered, leaves every other registered session
   registered and its session object (closed flag, queue, stream, toolset
   name) as it was. *)
C14_ErrorStaysInItsSession ==
    [][\A a \in SessionIds :
          TransportError(a)
          => \A b \in SessionIds \ {a} :
                Registered(b) => /\ Registered(b)'
                                 /\ sse_sessions'[b] = sse_sessions[b]]_vars

\* a failed write has closed one session while another one, open, holds an
\* event in its queue
C14_Witness ==
    \E a \in SessionIds, b \in SessionIds :
        /\ a # b /\ ClosedRegistered(a)
        /\ Registered(b) /\ ~sse_sessions[b].closed
        /\ sse_sessions[b].message_queue # <<>>

\* the session is registered and its closed flag is not set
Open(session_id) == Registered(session_id) /\ ~sse_sessions[session_id].closed

(* C15: while a session stays registered and not closed, no event it holds
   is dropped: in every step its unwritten events stay, or gain one event at
   the end, or lose their oldest event, whose frame is then the one frame
   added to the stream; and, the event loop running every ready handler,
   the events an open session holds unwritten are eventually all written, in
   their order, unless a write fails (the session is closed) or the
   connection's handler ends (the session is deregistered). *)
C15_AtLeastOnceWhileOpen ==
    /\ [][\A b \in SessionIds :
            (Open(b) /\ Open(b)')
            => \/ /\ Pending(b)' = Pending(b)
                  /\ Stream(b)' = Stream(b)
               \/ /\ Len(Pending(b)') = Len(Pending(b)) + 1
                  /\ SubSeq(Pending(b)', 1, Len(Pending(b))) = Pending(b)
                  /\ Stream(b)' = Stream(b)
               \/ /\ Pending(b) # <<>>
                  /\ Pending(b)' = Tail(Pending(b))
                  /\ Stream(b)' = Append(Stream(b), FrameOf(Head(Pending(b))))]_vars
    /\ \A b \in SessionIds :
          (Open(b) /\ Pending(b) # <<>>) ~> (~Open(b) \/ Pending(b) = <<>>)

\* an open session has written its endpoint frame and a message frame while
\* it holds one more message event in its queue
C15_Witness ==
    \E b \in SessionIds :
        /\ Open(b) /\ Len(Stream(b)) = 2 /\ Len(sse_sessions[b].message_queue) = 1
        /\ sse_sessions[b].message_queue[1].event = "message"

\* the served request is the initialized notification, sent without an id
PureNotification ==
    /\ Parsed /\ Method = PyStr("notifications/initialized")
    /\ "id" \notin DOMAIN post.body.vals

(* C16: the engine returns no response to a notifications/initialized
   request that has no id, and the POST transport answers it with status 204
   and no body; every other request the engine returns a response to is
   answered with status 200 and that response as body. *)
C16_NotificationIsUnanswered ==
    /\ PureNotification
       => /\ post.engine = Return(PyNone)
          /\ post.status = HTTP_NO_CONTENT
    /\ (Returned /\ ~PureNotification)
       => /\ post.status = HTTP_OK
          /\ post.reply = Response

\* the success envelope of notifications/initialized: an empty result
EmptyResult(doc) ==
    /\ IsResultResponse(doc)
    /\ doc.vals["result"] = JObject(<<>>, <<>>)

\* the step answers a notifications/initialized request
AnswersNotification ==
    /\ Answers
    /\ ~BodyRequest(post'.body).raised
    /\ BodyRequest(post'.body).value.method = PyStr("notifications/initialized")

(* C17, as claimed: a step that answers a notifications/initialized request
   returns a success envelope whose result is the empty object and leaves the
   initialized flag, the tool registry, the toolset map and every SSE session
   as they were. *)
C17_NotificationChangesNothing ==
    [][AnswersNotification
       => /\ ~post'.engine.raised
          /\ EmptyResult(post'.engine.value)
          /\ UNCHANGED <<initialized, tools, toolsets, sse_sessions>>]_vars

(* C17, amended: a step that answers a notifications/initialized request
   returns a success envelope whose result is the empty object and leaves the
   initialized flag, the tool registry and the toolset map as they were; it
   leaves every SSE session as it was too, but for the open session the POST
   names by its sessionId, which gains at the end of its queue the message
   event of that envelope, as it does for the response to any request. *)
C17_NotificationOnlyAcknowledges ==
    [][AnswersNotification
       => /\ ~post'.engine.raised
          /\ EmptyResult(post'.engine.value)
          /\ UNCHANGED <<initialized, tools, toolsets>>
          /\ DOMAIN sse_sessions' = DOMAIN sse_sessions
          /\ \A b \in DOMAIN sse_sessions :
                IF post'.session_id = PyStr(b) /\ ~sse_sessions[b].closed
                THEN sse_sessions'[b] =
                        [sse_sessions[b] EXCEPT !.message_queue =
                            Append(@, [event |-> "message",
                                       data |-> PyDict(<<"jsonrpc", "id", "result">>,
                                                  [jsonrpc |-> PyStr("2.0"),
                                                   id |-> FromJson(post'.engine.value.vals["id"]),
                                                   result |-> EmptyDict])])]
                ELSE sse_sessions'[b] = sse_sessions[b]]_vars

\* a notifications/initialized POST naming a registered session has been
\* answered before any initialize, and the session holds the envelope
C17_Witness ==
    \E b \in SessionIds :
        /\ Parsed /\ Method = PyStr("notifications/initialized")
        /\ post.session_id = PyStr(b) /\ Registered(b)
        /\ ~initialized
        /\ Returned /\ EmptyResult(Response)
        /\ sse_sessions[b].message_queue = <<MessageEvent(post)>>

(* C18: a POST whose body is no JSON, or no JSON-RPC envelope (a required
   member missing, an unexpected member, no object), is answered with HTTP
   status 500 and a JSON-RPC error body: jsonrpc 2.0, id null, an error
   object with code -32603. *)
C18_MalformedPostIs500 ==
    (Served /\ BodyRequest(post.body).raised)
    => /\ post.status = HTTP_SERVER_ERROR
       /\ post.reply.t = "object"
       /\ "jsonrpc" \in DOMAIN post.reply.vals
       /\ post.reply.vals["jsonrpc"] = JString("2.0")
       /\ IsErrorResponse(post.reply, INTERNAL_ERROR, JNull)

\* a body that is no JSON has been answered with status 500
C18_Witness ==
    /\ Served /\ post.body = Garbage("not json")
    /\ post.status = HTTP_SERVER_ERROR
    /\ IsErrorResponse(post.reply, INTERNAL_ERROR, JNull)

\* the result of every initialize response
InitializeResult ==
    JObject(<<"protocolVersion", "capabilities", "serverInfo">>,
            [protocolVersion |-> JString("2024-11-05"),
             capabilities |->
                 JObject(<<"tools">>,
                         [tools |-> JObject(<<"listChanged">>,
                                            [listChanged |-> JBool(FALSE)])]),
             serverInfo |->
                 JObject(<<"name", "version">>,
                         [name |-> JString("Python MCP Toolbox"),
                          version |-> JString("1.0.0")])])

\* this step takes a POST request, whose method is initialize
TakesInitialize ==
    /\ post.pc = "idle" /\ post'.pc # "idle"
    /\ ~BodyRequest(post'.body).raised
    /\ BodyRequest(post'.body).value.method = PyStr("initialize")

(* C19: the initialized flag is false until the engine serves; no step
   resets it to false; a step changes it only by handling an initialize
   request; and every step that handles an initialize request leaves it true
   and returns the fixed protocolVersion / capabilities / serverInfo result. *)
C19_InitializedIsSetOnce ==
    /\ [](phase # "serving" => ~initialized)
    /\ [][/\ initialized => initialized'
          /\ initialized' # initialized => TakesInitialize
          /\ TakesInitialize
             => /\ initialized'
                /\ post'.pc = "replied"
                /\ ~post'.engine.raised
                /\ IsResultResponse(post'.engine.value)
                /\ post'.engine.value.vals["result"] = InitializeResult]_vars

\* after an initialize, a tools/list has been answered and the flag is still
\* set
C19_Witness ==
    initialized /\ Listing

\* what the request, the toolset name and the toolset map alone decide: the
\* handler of the request's method, whatever the initialized flag
ByMethodAlone(request, toolset_name, all_toolsets) ==
    CASE request.method = PyStr("initialize") -> Done(_handle_initialize(request))
      [] request.method = PyStr("notifications/initialized") ->
             Done(_handle_notifications(request))
      [] request.method = PyStr("tools/list") ->
             Done(_handle_list_tools(request, toolset_name, all_toolsets))
      [] request.method = PyStr("tools/call") ->
             CallToolResolve(request, toolset_name, all_toolsets)
      [] OTHER ->
             Done(McpResponse([jsonrpc |-> JsonRpc, id |-> request.id,
                      error |-> ErrorObject(METHOD_NOT_FOUND,
                          "Method not found: " \o Str(request.method))]))

(* C20: whether the initialized flag is false or true, the outcome of
   handle_request and the tool invoked, if any, are what the request text,
   the toolset name, the toolset map and the tool's own outcome decide: a
   request that is no envelope gets the outcome of the except block; a request
   whose handler needs no tool gets that handler's response and invokes
   nothing; a tools/call that resolves its tool invokes that tool with the
   request's arguments and gets the response built from the tool's outcome.
   So tools/list and tools/call are served before any initialize. *)
C20_FlagEnforcesNothing ==
    post.pc \in {"invoking", "replied"}
    => LET request == BodyRequest(post.body) IN
       IF request.raised
       THEN /\ post.engine = HandleRequestExcept(request)
            /\ post.invoked = <<>>
       ELSE LET step == ByMethodAlone(request.value, post.toolset_name, toolsets) IN
            IF step.k = "done"
            THEN /\ post.pc = "replied"
                 /\ post.engine = HandleRequestEnd(step.outcome)
                 /\ post.invoked = <<>>
            ELSE /\ post.invoked = <<step.tool.name>>
                 /\ post.arguments = step.arguments
                 /\ post.pc = "replied"
                    => post.engine
                          = HandleRequestEnd(CallToolFinish(request.value,
                                                            post.tool_outcome))

\* before any initialize, a tools/call of echo has invoked the tool and
\* returned its result
C20_Witness ==
    /\ ~initialized
    /\ ToolReturned /\ post.invoked = <<"echo">>
    /\ Returned /\ IsResultResponse(Response)

----------------------------------------------------------------------------
(* C21: create_toolsets *)

\* the tool names an entry of the toolsets section lists
ListedIn(config) ==
    IF config.t = "list" THEN config.items
    ELSE IF "tools" \in DOMAIN config.vals THEN config.vals["tools"].items
    ELSE IF "tool_names" \in DOMAIN config.vals THEN config.vals["tool_names"].items
    ELSE <<>>

\* some entry lists a name that is no key of the registry
ListsStranger ==
    \E n \in DOMAIN toolset_configs.vals :
       \E name \in Range(ListedIn(toolset_configs.vals[n])) :
          name.v \notin DOMAIN tools.vals

\* C21: create_toolsets fails, and no toolset map exists, exactly when some
\* entry lists a tool name that is no key of all_tools; when it succeeds the
\* members of a configured toolset are the names its entry lists, whichever
\* shape the entry has, and each member is the tool the registry holds under
\* that name
C21_CreateToolsets ==
    /\ phase # "boot" => (phase = "failed" <=> ListsStranger)
    /\ phase = "failed" => toolsets = EmptyMapping
    /\ phase = "serving" =>
          \A n \in DOMAIN toolset_configs.vals :
             /\ n \in DOMAIN toolsets.vals
             /\ DOMAIN toolsets.vals[n].tools.vals =
                   {name.v : name \in Range(ListedIn(toolset_configs.vals[n]))}
             /\ \A m \in DOMAIN toolsets.vals[n].tools.vals :
                   toolsets.vals[n].tools.vals[m] = tools.vals[m]

\* create_toolsets made a toolset of two tools from an object entry
C21_Witness ==
    /\ phase = "serving"
    /\ \E n \in DOMAIN toolset_configs.vals :
          /\ toolset_configs.vals[n].t = "dict"
          /\ Cardinality(DOMAIN toolsets.vals[n].tools.vals) = 2

----------------------------------------------------------------------------
(* C22..C25: the parameter set *)

\* the names the parameter set declares
DeclaredNames == {parameter_list[i].name : i \in 1..Len(parameter_list)}

ParamOf(name) == CHOOSE q \in Range(parameter_list) : q.name = name

GivenNames == DOMAIN given_values.vals

\* the name is missing from the arguments, or given as null
Missing(name) == name \notin GivenNames \/ given_values.vals[name] = PyNone

UnknownKey == \E k \in GivenNames : k \notin DeclaredNames

MissingRequired == \E q \in Range(parameter_list) : q.required /\ Missing(q.name)

\* a declared name is given a value its parameter's validate refuses
RefusedValue ==
    \E k \in GivenNames \cap DeclaredNames :
       /\ given_values.vals[k] # PyNone
       /\ ParameterValidate(ParamOf(k), given_values.vals[k]).raised

\* validate_values returned the mapping the claim describes
ReturnedFilled ==
    /\ ~validated_values.raised
    /\ DOMAIN validated_values.value.vals = DeclaredNames
    /\ \A q \in Range(parameter_list) :
          Missing(q.name) => validated_values.value.vals[q.name] = q.default

\* C22, as stated: validate_values fails on an undeclared key, fails on a
\* required parameter that is missing or null, and in every other case
\* returns a mapping over exactly the declared names with the missing
\* optional parameters at their defaults
C22_FailsOrReturnsFilled ==
    validated_values # NotRun =>
       IF UnknownKey \/ MissingRequired THEN validated_values.raised
       ELSE ReturnedFilled

\* C22, amended: the same, except that it also fails when a given value is
\* refused by its parameter's type or constraint validation
C22_FailsOrRefusesOrReturnsFilled ==
    validated_values # NotRun =>
       IF UnknownKey \/ MissingRequired \/ RefusedValue THEN validated_values.raised
       ELSE ReturnedFilled

\* validate_values filled the default of a missing optional parameter next
\* to a given one
C22_Witness ==
    /\ validated_values # NotRun
    /\ ~validated_values.raised
    /\ Len(parameter_list) = 2
    /\ \E q \in Range(parameter_list) : ~q.required /\ q.name \notin GivenNames
    /\ \E q \in Range(parameter_list) : q.name \in GivenNames

\* C23: an optional parameter of any type has a non-null default, and the
\* validated output holds no null for an optional parameter
C23_OptionalResolvesToNonNull ==
    /\ \A q \in Range(parameter_list) : ~q.required => q.default # PyNone
    /\ (validated_values # NotRun /\ ~validated_values.raised) =>
          \A q \in Range(parameter_list) :
             ~q.required => validated_values.value.vals[q.name] # PyNone

\* C24: validate(default) succeeds for every optional parameter
C24_DefaultValidates ==
    validated_defaults # NotRun =>
       \A i \in 1..Len(parameter_list) :
          ~parameter_list[i].required => ~validated_defaults.outcomes[i].raised

\* JSON Schema: the instance has the type
HasJsonType(type, v) ==
    CASE type = "string" -> v.t = "str"
      [] type = "integer" -> v.t = "int" \/ (v.t = "float" /\ v.twice % 2 = 0)
      [] type = "number" -> v.t \in {"int", "float"}
      [] type = "boolean" -> v.t = "bool"
      [] type = "array" -> v.t = "list"
      [] type = "object" -> v.t = "dict"
      [] OTHER -> FALSE

\* JSON Schema: two instances are equal (numbers by value, a boolean is no number)
JsonEq(a, b) ==
    IF a.t \in {"int", "float"} /\ b.t \in {"int", "float"} THEN Twice(a) = Twice(b)
    ELSE a = b

\* JSON Schema: the pattern, of literal characters, occurs in the text
PatternFound(pattern, text) ==
    \E i \in 1..(Len(text) - Len(pattern) + 1) :
       SubSeq(text, i, i + Len(pattern) - 1) = pattern

\* JSON Schema: the instance satisfies the schema, for the keywords
\* to_mcp_schema emits
RECURSIVE Satisfies(_, _)
Satisfies(sch, v) ==
    LET has(k) == k \in DOMAIN sch.vals
        at(k) == sch.vals[k] IN
    /\ has("type") => HasJsonType(at("type").v, v)
    /\ has("enum") => \E i \in 1..Len(at("enum").items) : JsonEq(at("enum").items[i], v)
    /\ (has("minimum") /\ v.t \in {"int", "float"}) => Twice(v) >= Twice(at("minimum"))
    /\ (has("maximum") /\ v.t \in {"int", "float"}) => Twice(v) <= Twice(at("maximum"))
    /\ (has("minLength") /\ v.t = "str") => Len(v.v) >= at("minLength").n
    /\ (has("maxLength") /\ v.t = "str") => Len(v.v) <= at("maxLength").n
    /\ (has("pattern") /\ v.t = "str") => PatternFound(at("pattern").v, v.v)
    /\ (has("minItems") /\ v.t = "list") => Len(v.items) >= at("minItems").n
    /\ (has("maxItems") /\ v.t = "list") => Len(v.items) <= at("maxItems").n
    /\ (has("items") /\ v.t = "list") =>
          \A i \in 1..Len(v.items) : Satisfies(at("items"), v.items[i])
    /\ (has("required") /\ v.t = "dict") =>
          \A i \in 1..Len(at("required").items) :
             at("required").items[i].v \in DOMAIN v.vals
    /\ v.t = "dict" =>
          \A k \in DOMAIN v.vals :
             IF has("properties") /\ k \in DOMAIN at("properties").vals
             THEN Satisfies(at("properties").vals[k], v.vals[k])
             ELSE IF ~has("additionalProperties") THEN TRUE
             ELSE IF at("additionalProperties").t = "bool"
             THEN at("additionalProperties").b
             ELSE Satisfies(at("additionalProperties"), v.vals[k])

\* C25: an argument mapping that satisfies the schema the parameter set
\* emits is validated by the same parameter set without an error
C25_SchemaValidIsAccepted ==
    (mcp_schema # NotRun /\ validated_values # NotRun
       /\ Satisfies(mcp_schema, given_values)) => ~validated_values.raised

----------------------------------------------------------------------------
(* C26, C27: the pre-hook and the wrapped invoke *)

\* the tools section gives the tool a pre-hook, or data sources
HookConfigured(name) == Truthy(DictGet(tool_configs.vals[name], "pre_hook", PyNone))

PostConfigured(name) ==
    Truthy(DictGet(tool_configs.vals[name], "datasource_ids", PyNone))

\* the events of one kind the running call has seen
Events(e) == SelectSeq(call.trace, LAMBDA x : x.e = e)

\* the runs of a hook, and the run_hook calls that raised
HookRuns == SelectSeq(call.trace, LAMBDA x : x.e = "run_hook" /\ x.hook # PyNone)

HookStepRaised == \E i \in 1..Len(call.trace) :
                     call.trace[i].e = "run_hook" /\ call.trace[i].raised

\* the response of the call reports an invocation failure
ReportsFailure ==
    /\ ~call.response.raised
    /\ "isError" \in DOMAIN call.response.value.vals["result"].vals
    /\ call.response.value.vals["result"].vals["isError"] = PyBool(TRUE)

\* C26: a call of a tool configured with a pre-hook runs that hook, with the
\* call's raw arguments, before the original invoke starts; when the hook
\* raises, the original invoke is not called and the tools/call response has
\* isError true
C26_PreHookRunsFirst ==
    (call.pc # "idle" /\ HookConfigured(call.tool)) =>
       /\ (Events("invoke") # <<>> \/ call.pc = "done") =>
             /\ call.trace # <<>>
             /\ call.trace[1] =
                   Event("run_hook",
                         [t |-> "function",
                          path |-> tool_configs.vals[call.tool].vals["pre_hook"].v],
                         call.arguments, call.trace[1].raised)
       /\ (call.pc = "done" /\ HookStepRaised) =>
             /\ Events("invoke") = <<>>
             /\ ReportsFailure

\* the invoke of the tool is under a closure
Wrapped(name) == Len(invokes.vals[name]) > 0

\* every tool is wrapped at most once, and a tool configured with neither a
\* pre-hook nor data sources is not wrapped
WrappedAtMostOnce ==
    \A n \in DOMAIN invokes.vals :
       /\ Len(invokes.vals[n]) <= 1
       /\ (~HookConfigured(n) /\ ~PostConfigured(n)) => ~Wrapped(n)

\* C27, as stated: after any number of initializations every tool is wrapped
\* at most once; one call of a wrapped tool runs the pre-hook at most once,
\* the original invoke exactly once and the post-processing append at most
\* once; an unconfigured tool keeps its original invoke
C27_WrappedOnceInvokesOnce ==
    /\ WrappedAtMostOnce
    /\ call.pc = "done" =>
          /\ Len(HookRuns) <= 1
          /\ Len(Events("invoke")) = 1
          /\ Len(Events("append")) <= 1
          /\ ~Wrapped(call.tool) => (HookRuns = <<>> /\ Events("append") = <<>>)

\* C27, amended: the original invoke is called at most once, and exactly
\* once unless the run_hook step raises
C27_WrappedOnceInvokesAtMostOnce ==
    /\ WrappedAtMostOnce
    /\ call.pc = "done" =>
          /\ Len(HookRuns) <= 1
          /\ Len(Events("invoke")) = (IF HookStepRaised THEN 0 ELSE 1)
          /\ Len(Events("append")) <= 1
          /\ ~Wrapped(call.tool) => (HookRuns = <<>> /\ Events("append") = <<>>)

\* after two initializations a call ran its hook, the original invoke and
\* the post-processing append
C27_Witness ==
    /\ Len(hook_cells) = 2
    /\ call.pc = "done"
    /\ HookRuns # <<>> /\ Events("invoke") # <<>> /\ Events("append") # <<>>

----------------------------------------------------------------------------
(* retries, registries and the stdio loop *)

\* the request is a tools/call whose toolset or whose tool does not resolve
ResolutionFails(served, all_toolsets) ==
    LET request == BodyRequest(served.body) IN
    /\ served.pc # "idle"
    /\ ~request.raised
    /\ request.value.method = PyStr("tools/call")
    /\ \/ served.toolset_name \notin DOMAIN all_toolsets.vals
       \/ ~HasKey(all_toolsets.vals[served.toolset_name].tools,
                  IF request.value.params.t = "dict"
                  THEN DictGet(request.value.params, "name", PyNone) ELSE PyNone)

\* C28: a request leads to at most one call of tool.invoke; once the call is
\* awaited, its return or its exception ends the request with no other call;
\* a tools/call whose toolset or tool does not resolve leads to none
C28_NeverRetries ==
    [][/\ Len(post'.invoked) <= 1
       /\ post.pc = "invoking" => (post'.pc = "replied" /\ post'.invoked = post.invoked)
       /\ ResolutionFails(post', toolsets') => post'.invoked = <<>>]_vars

\* a tool was invoked once, raised, and the request was answered
C28_Witness == ToolRaised /\ Len(post.invoked) = 1 /\ post.pc = "replied"

\* C29: once the server is serving, no step changes the tool map, the toolset
\* map or the members of a toolset
C29_RegistriesAreReadOnly ==
    [][phase = "serving" => (tools' = tools /\ toolsets' = toolsets)]_vars

\* a tools/call under an unknown toolset name has been served, and the
\* registries are those startup built
C29_Witness ==
    /\ Parsed /\ Method = PyStr("tools/call") /\ UnknownToolset
    /\ toolsets = McpServerToolsets(tools, create_toolsets(toolset_configs, tools).value)

\* the lines read that hold more than whitespace
NonEmptyLines == SelectSeq(stdio.lines, LAMBDA l : l.body # Garbage(""))

\* C30: the stdio loop hands each non-empty line, and no empty one, to the
\* engine as one request against the default toolset; it prints at most one
\* line per input line, in input order; it goes on after a failed request;
\* it ends exactly when end-of-input is reached
C30_StdioLoop ==
    /\ stdio.handed = [i \in 1..Len(NonEmptyLines) |->
                          [request_data |-> NonEmptyLines[i].body, toolset_name |-> ""]]
    /\ \A i, j \in 1..Len(stdout) : i < j => stdout[i].line < stdout[j].line
    /\ \A i \in 1..Len(stdout) : stdout[i].line \in 1..Len(stdio.lines)
    /\ stdio.pc = "ended" <=> stdio.eof
    /\ stdio.eof => stdin = <<>>

----------------------------------------------------------------------------
(* a POST carrying a sessionId, against the session's disconnect *)

\* the step answers a POST with the reply the engine returned
AnswersWithReply ==
    /\ Answers
    /\ ~post'.engine.raised
    /\ post'.engine.value.t = "object"
    /\ post'.session_id.t = "str"

\* the session with the message event of the answered POST added to its queue
Mirrored(session_id) ==
    [sse_sessions[session_id] EXCEPT !.message_queue = Append(@, MessageEvent(post'))]

\* the step ends the session's connection: its handler returns
Disconnects(session_id) ==
    /\ session_id \in DOMAIN sse_handlers
    /\ Running(sse_handlers[session_id])
    /\ sse_handlers'[session_id] = HandlerReturned

\* a tool call in flight stays in flight, or completes and is answered
CallNotCancelled ==
    /\ \A b \in SessionIds : (Disconnects(b) \/ TransportError(b)) => post' = post
    /\ post.pc = "invoking"
       => \/ post' = post
          \/ /\ post'.pc = "replied"
             /\ post'.tool_outcome \in ToolInvoke(post.tool, post.arguments)
             /\ post'.status = HTTP_OK

(* C31, as claimed: a step that answers a POST carrying a sessionId with
   the engine's reply returns that reply with status 200; when the session is
   registered, its queue gains the message event of the reply, and no other
   session changes; when the session id is not registered, no session
   changes. A step that disconnects a session leaves a tool call in flight as
   it was, and the call is answered when the tool returns. *)
C31_RegisteredIsMirrored ==
    [][/\ AnswersWithReply
          => LET a == post'.session_id.v IN
             /\ post'.status = HTTP_OK
             /\ post'.reply = post'.engine.value
             /\ DOMAIN sse_sessions' = DOMAIN sse_sessions
             /\ \A b \in DOMAIN sse_sessions :
                   sse_sessions'[b] = IF b = a THEN Mirrored(b) ELSE sse_sessions[b]
       /\ CallNotCancelled]_vars

(* C31, amended: the same, but the queue of the session gains the message
   event only when the session is registered and its closed flag is not set;
   a registered session whose closed flag is set (a write failed, its handler
   has not yet ended) stays as it was, like every other session. *)
C31_OpenIsMirrored ==
    [][/\ AnswersWithReply
          => LET a == post'.session_id.v IN
             /\ post'.status = HTTP_OK
             /\ post'.reply = post'.engine.value
             /\ DOMAIN sse_sessions' = DOMAIN sse_sessions
             /\ \A b \in DOMAIN sse_sessions :
                   sse_sessions'[b] = IF b = a /\ Open(b) THEN Mirrored(b)
                                      ELSE sse_sessions[b]
       /\ CallNotCancelled]_vars

\* a tools/call carrying the sessionId of a session whose handler has ended
\* is answered with status 200 and the tool's result, while the other session,
\* registered and open, holds nothing but its written endpoint frame
C31_Witness ==
    \E a \in SessionIds, b \in SessionIds :
        /\ a # b
        /\ ToolReturned /\ post.status = HTTP_OK /\ post.reply = post.engine.value
        /\ post.session_id = PyStr(a)
        /\ HandlerEnded(a) /\ ~Registered(a)
        /\ Open(b) /\ Pending(b) = <<>> /\ Len(Stream(b)) = 1

----------------------------------------------------------------------------
(* the order of the frames of a session *)

\* the step is a send_event call the session accepts: one event is added
\* behind the events it holds unwritten
Accepts(session_id) ==
    /\ ~sse_sessions[session_id].closed
    /\ Len(Pending(session_id)') = Len(Pending(session_id)) + 1
    /\ SubSeq(Pending(session_id)', 1, Len(Pending(session_id))) = Pending(session_id)
    /\ sse_sessions'[session_id].message_queue
          = Append(sse_sessions[session_id].message_queue,
                   Pending(session_id)'[Len(Pending(session_id)')])

\* the step ends a write of the session's handler: the event it took from the
\* queue, the oldest the session held unwritten, is held no more
EndsWrite(session_id) ==
    /\ sse_handlers[session_id].pc = "write"
    /\ Pending(session_id)' = Tail(Pending(session_id))

(* C32: in every step, for every session that stays registered: either
   its stream and its unwritten events stay as they are; or send_event accepts
   one event, which goes behind every event accepted before it and not yet
   written, and the stream stays; or a write ends, and then the event that
   leaves is the oldest accepted one not yet written, and the stream gains at
   most one frame, at its end, the frame of that very event. So the frames of
   a stream are in the order of acceptance and no event is written twice. A
   session that has just connected holds its endpoint event alone. *)
C32_FramesInAcceptanceOrder ==
    [][\A b \in SessionIds :
          Registered(b)' =>
             IF ~Registered(b)
             THEN /\ Stream(b)' = <<>>
                  /\ Len(Pending(b)') = 1
                  /\ Pending(b)'[1].event = "endpoint"
             ELSE \/ /\ Pending(b)' = Pending(b)
                     /\ Stream(b)' = Stream(b)
                  \/ /\ Accepts(b)
                     /\ Stream(b)' = Stream(b)
                  \/ /\ EndsWrite(b)
                     /\ Stream(b)' = Append(Stream(b), FrameOf(Head(Pending(b))))
                  \/ /\ EndsWrite(b)
                     /\ Stream(b)' = Stream(b)
                     /\ sse_sessions'[b].closed]_vars

\* the endpoint frame of a session is written, its handler is writing one
\* message event and a different message event waits in the queue behind it
C32_Witness ==
    \E b \in SessionIds :
        /\ Registered(b) /\ Len(Stream(b)) = 1
        /\ sse_handlers[b].pc = "write"
        /\ sse_handlers[b].message.event = "message"
        /\ Len(sse_sessions[b].message_queue) = 1
        /\ sse_sessions[b].message_queue[1] # sse_handlers[b].message

----------------------------------------------------------------------------
(* a session whose closed flag is set *)

(* C33: a registered session whose closed flag is set keeps the flag set
   for as long as it is registered; a step that answers a POST naming it
   leaves the session as it was; and its handler attempts no write for it:
   the handler is never at a write while the flag is set, and no step takes
   an event from its queue. *)
C33_ClosedIsFinal ==
    /\ [][\A b \in SessionIds :
            (ClosedRegistered(b) /\ Registered(b)')
            => /\ sse_sessions'[b].closed
               /\ Stream(b)' = Stream(b)
               /\ sse_sessions'[b].message_queue = sse_sessions[b].message_queue
               /\ (Answers /\ post'.session_id = PyStr(b))
                  => sse_sessions'[b] = sse_sessions[b]]_vars
    /\ [](\A b \in SessionIds :
            ClosedRegistered(b) => sse_handlers[b].pc # "write")

----------------------------------------------------------------------------
(* the toolset scope of the responses a session receives *)

(* C34: a step that answers a POST to the path of toolset T carrying the
   sessionId of a registered session opened against another toolset U adds
   nothing to that session: its queue, from which its stream is written,
   gains an event only from a POST to the path of the toolset the session was
   opened against. *)
C34_SessionReceivesItsScopeOnly ==
    [][\A b \in SessionIds :
          (/\ Answers
           /\ post'.session_id = PyStr(b)
           /\ Registered(b)
           /\ sse_sessions[b].toolset_name # post'.toolset_name)
          => /\ Registered(b)'
             /\ sse_sessions'[b] = sse_sessions[b]]_vars

----------------------------------------------------------------------------
(* the hook of a tool against the configuration of the other tools *)

\* the hook the tool's own configuration names
OwnHook(name) ==
    [t |-> "function", path |-> tool_configs.vals[name].vals["pre_hook"].v]

(* C35: whatever the other tools' configuration, a finished call of a
   tool configured with a pre-hook has run run_hook once, on the hook of that
   tool's own configuration; a finished call of a tool configured with data
   sources and no pre-hook has not entered run_hook at all. *)
C35_HookDependsOnOwnConfigOnly ==
    call.pc = "done" =>
       /\ HookConfigured(call.tool)
          => /\ Len(HookRuns) = 1
             /\ HookRuns[1].hook = OwnHook(call.tool)
       /\ (~HookConfigured(call.tool) /\ PostConfigured(call.tool))
          => HookRuns = <<>>

----------------------------------------------------------------------------
(* the state machine of one tools/call on a tool with parameters: the *)
(* invoke of MySQLSqlTool and of HttpTool, from validate_values to the  *)
(* backend                                                              *)

\* the tools of the call: a SQL tool and an HTTP tool over the same parameters
CallRegistry(parameters) ==
    Mapping(<<"query", "fetch">>,
            [n \in {"query", "fetch"} |->
                IF n = "query" THEN [QueryTool EXCEPT !.parameters = parameters]
                ELSE HttpTool(parameters)])

CallInit ==
    /\ StdioIdle
    /\ phase = "serving"
    /\ toolset_configs = EmptyMapping
    /\ toolsets = EmptyMapping
    /\ initialized = FALSE
    /\ sse_sessions = [sid \in {} |-> PyNone]
    /\ sse_handlers = [sid \in {} |-> PyNone]
    /\ post = IdlePost
    /\ \E n \in 0..MaxParams :
          /\ parameter_list \in ParameterLists(n)
          /\ given_values \in ArgumentMappings(n) \cup {PyNone}
    /\ tools = CallRegistry(parameter_list)
    /\ validated_values = NotRun
    /\ mcp_schema = NotRun
    /\ validated_defaults = NotRun
    /\ tool_configs = PlainToolConfigs
    /\ invokes = EmptyMapping
    /\ hook_cells = <<>>
    /\ call = IdleCall

\* the values handed to the backend: execute_query gets the validated values
\* in the order of the parameter list, source.request the query parameters
BackendArguments(tool, validated) ==
    IF tool.kind = "http"
    THEN PyDict(SelectSeq(validated.keys,
                          LAMBDA k : \E i \in 1..Len(tool.parameters) :
                                         tool.parameters[i].name = k),
                validated.vals)
    ELSE PyList([i \in 1..Len(tool.parameters) |->
                    validated.vals[tool.parameters[i].name]])

\* invoke starting the backend on the raw arguments before it validates them
InvokeStartsUnvalidated(name) ==
    /\ call.pc = "idle"
    /\ call.trace = <<>>
    /\ LET tool == tools.vals[name]
           running == [IdleCall EXCEPT !.tool = name, !.arguments = given_values]
           validated == validate_values(tool.parameters, given_values)
           started == <<Event(IF tool.kind = "http" THEN "request" ELSE "execute_query",
                              PyNone, given_values, FALSE)>> IN
       /\ validated_values' = validated
       /\ call' = IF validated.raised
                  THEN CallDone([running EXCEPT !.trace = started], validated)
                  ELSE [running EXCEPT !.pc = "backend", !.trace = started]
    /\ UNCHANGED <<parameter_list, given_values, mcp_schema, validated_defaults>>
    /\ UNCHANGED <<http_vars, stdio_vars, tool_configs, invokes, hook_cells>>

\* _handle_call_tool awaits tool.invoke(arguments): invoke runs
\* validate_values; when it raises, the except block of _handle_call_tool
\* builds the response; when it returns, invoke awaits the backend
InvokeStarts(name) ==
    /\ call.pc = "idle"
    /\ call.trace = <<>>
    /\ LET tool == tools.vals[name]
           running == [IdleCall EXCEPT !.tool = name, !.arguments = given_values]
           validated == validate_values(tool.parameters, given_values) IN
       /\ validated_values' = validated
       /\ call' = IF validated.raised
                  THEN CallDone([running EXCEPT !.trace =
                                    <<Event("validate_values", PyNone, given_values,
                                            TRUE)>>],
                                validated)
                  ELSE [running EXCEPT
                           !.pc = "backend",
                           !.trace = <<Event("validate_values", PyNone, given_values,
                                             FALSE),
                                       Event(IF tool.kind = "http" THEN "request"
                                             ELSE "execute_query",
                                             PyNone,
                                             BackendArguments(tool, validated.value),
                                             FALSE)>>]
    /\ UNCHANGED <<parameter_list, given_values, mcp_schema, validated_defaults>>
    /\ UNCHANGED <<http_vars, stdio_vars, tool_configs, invokes, hook_cells>>

\* the backend answers or fails; invoke returns or raises, and
\* _handle_call_tool builds the response
BackendCompletes ==
    /\ call.pc = "backend"
    /\ \E invoked \in (IF tools.vals[call.tool].kind = "http" THEN SourceRequest
                       ELSE ExecuteQuery) :
          call' = CallDone(call, invoked)
    /\ UNCHANGED <<http_vars, pure_vars, stdio_vars, tool_configs, invokes, hook_cells>>

CallNext ==
    \/ \E name \in {"query", "fetch"} : InvokeStarts(name)
    \/ BackendCompletes

CallSpec == CallInit /\ [][CallNext]_vars

----------------------------------------------------------------------------
(* a tools/call whose arguments fail validation *)

\* the call is answered and validate_values raised on its arguments
ValidationFailed ==
    /\ call.pc = "done"
    /\ validated_values # NotRun
    /\ validated_values.raised

\* the events of the call at the backend
BackendEvents ==
    SelectSeq(call.trace, LAMBDA x : x.e \in {"execute_query", "request"})

(* C36: a finished tools/call whose arguments validate_values refused is
   answered with a result envelope, no error member, whose isError is true
   and whose one text content is the message of the validation error, and
   neither execute_query nor the HTTP request was started for it; a call at
   or past its backend has arguments that validate_values returned. *)
C36_ValidationFailureIsToolError ==
    /\ ValidationFailed
       => /\ ~call.response.raised
          /\ call.response.value.t = "dict"
          /\ DOMAIN call.response.value.vals = {"jsonrpc", "id", "result"}
          /\ call.response.value.vals["result"] =
                PyDict(<<"content", "isError">>,
                       [content |-> PyList(<<PyDict(<<"type", "text">>,
                                               [type |-> PyStr("text"),
                                                text |-> PyStr(validated_values.message)])>>),
                        isError |-> PyBool(TRUE)])
          /\ BackendEvents = <<>>
    /\ BackendEvents # <<>>
       => /\ ~validated_values.raised
          /\ validated_values = validate_values(parameter_list, given_values)
          /\ Len(BackendEvents) = 1

\* a finished call of the SQL tool was refused for a violated constraint:
\* its parameter list and arguments validate but for one value
C36_Witness ==
    /\ ValidationFailed
    /\ call.tool = "query"
    /\ validated_values.exc = "ValueError"
    /\ ~UnknownKey /\ ~MissingRequired
    /\ BackendEvents = <<>>

----------------------------------------------------------------------------
(* the order of the checks of Parameter.validate *)

\* the constraints, in the order the checks are said to run
ConstraintOrder ==
    <<"enum", "minimum", "maximum", "min_length", "max_length", "pattern",
      "min_items", "max_items">>

\* the coerced value breaks the constraint
Breaks(param, coerced, constraint) ==
    CASE constraint = "enum" ->
           param.enum # PyNone /\ ~PyIn(coerced, param.enum)
      [] constraint = "minimum" ->
           /\ param.type \in {"integer", "number"} /\ param.minimum # PyNone
           /\ Twice(coerced) < Twice(param.minimum)
      [] constraint = "maximum" ->
           /\ param.type \in {"integer", "number"} /\ param.maximum # PyNone
           /\ Twice(coerced) > Twice(param.maximum)
      [] constraint = "min_length" ->
           /\ param.type = "string" /\ param.min_length # PyNone
           /\ Len(coerced.v) < param.min_length.n
      [] constraint = "max_length" ->
           /\ param.type = "string" /\ param.max_length # PyNone
           /\ Len(coerced.v) > param.max_length.n
      [] constraint = "pattern" ->
           /\ param.type = "string" /\ param.pattern # PyNone
           /\ ~re_match(param.pattern.v, coerced.v)
      [] constraint = "min_items" ->
           /\ param.type = "array" /\ param.min_length # PyNone
           /\ Len(coerced.items) < param.min_length.n
      [] constraint = "max_items" ->
           /\ param.type = "array" /\ param.max_length # PyNone
           /\ Len(coerced.items) > param.max_length.n

\* the constraints the coerced value breaks, in the order of the checks
BrokenConstraints(param, coerced) ==
    SelectSeq(ConstraintOrder, LAMBDA c : Breaks(param, coerced, c))

\* the words by which the message of a ValueError names the constraint
ConstraintWords(param, constraint) ==
    CASE constraint = "enum" -> "' must be one of "
      [] constraint = "minimum" -> "' must be >= "
      [] constraint = "maximum" -> "' must be <= "
      [] constraint = "min_length" ->
           "' must be at least " \o Str(param.min_length) \o " characters"
      [] constraint = "max_length" ->
           "' must be at most " \o Str(param.max_length) \o " characters"
      [] constraint = "pattern" -> "' does not match pattern "
      [] constraint = "min_items" ->
           "' must have at least " \o Str(param.min_length) \o " items"
      [] constraint = "max_items" ->
           "' must have at most " \o Str(param.max_length) \o " items"

\* the message names the constraint of the parameter, and that one alone
Names(message, param, constraint) ==
    LET lead == "Parameter '" \o param.name \o ConstraintWords(param, constraint) IN
    /\ Len(message) >= Len(lead)
    /\ SubSeq(message, 1, Len(lead)) = lead

\* the arguments given to declared parameters, None apart
GivenToValidate ==
    { k \in GivenNames \cap DeclaredNames : given_values.vals[k] # PyNone }

(* C37: for every parameter and every value given to it, validate: fails
   with the error of the type coercion when the coercion fails, whatever
   constraint the raw value would break; otherwise fails with a ValueError
   that names the first constraint, in the order enum, minimum, maximum,
   string minimum length, string maximum length, pattern, array minimum
   length, array maximum length, that the coerced value breaks, and no other
   constraint; otherwise returns the coerced value. *)
C37_CoercionThenConstraintsInOrder ==
    validated_values # NotRun =>
       \A k \in GivenToValidate :
          LET param == ParamOf(k)
              value == given_values.vals[k]
              coerced == _validate_type(param, value)
              outcome == ParameterValidate(param, value) IN
          IF coerced.raised THEN outcome = coerced
          ELSE LET broken == BrokenConstraints(param, coerced.value) IN
               IF broken = <<>> THEN outcome = coerced
               ELSE /\ outcome.raised
                    /\ outcome.exc = "ValueError"
                    /\ validated_values.raised
                    /\ \A c \in Range(ConstraintOrder) :
                          Names(outcome.message, param, c) <=> c = broken[1]

\* validate_values refused a value that, once coerced, breaks several
\* constraints of its parameter
C37_Witness ==
    /\ validated_values # NotRun
    /\ \E k \in GivenToValidate :
          LET coerced == _validate_type(ParamOf(k), given_values.vals[k]) IN
          /\ ~coerced.raised
          /\ coerced.value # given_values.vals[k]
          /\ Len(BrokenConstraints(ParamOf(k), coerced.value)) >= 2

----------------------------------------------------------------------------
(* array parameters with an items schema *)

\* the scenario's parameter: an array of integers, of two items at least
IntegersMinTwo ==
    Parameter("p1", "array", "a list",
              [required |-> TRUE, min_length |-> PyInt(2),
               items |-> Parameter("p1_item", "integer", "", [required |-> TRUE])])

\* the arguments given to declared array parameters that have an items schema
GivenToItems ==
    { k \in GivenToValidate : ParamOf(k).type = "array" /\ ParamOf(k).items # PyNone }

\* the positions of the elements the items parameter refuses
Refused(items, value) ==
    { i \in 1..Len(value.items) : ParameterValidate(items, value.items[i]).raised }

(* C38: for an array parameter with an items schema, validate refuses a
   value that is no list; for a list it validates the elements against the
   items parameter and fails with the error of the first element refused,
   whatever the length of the list; when every element validates it fails
   with the length error if the list is shorter than the minimum or longer
   than the maximum, and otherwise returns the list of the validated
   elements, in order. For items of type integer and a minimum of two items:
   [1,2,3] gives [1,2,3], [1] fails on the length, ["a","b"] fails on the
   coercion of its first element. *)
C38_ItemsThenLength ==
    /\ validated_values # NotRun =>
          \A k \in GivenToItems :
             LET param == ParamOf(k)
                 value == given_values.vals[k]
                 outcome == ParameterValidate(param, value) IN
             IF value.t # "list"
             THEN outcome = Raise("ValueError",
                                  "Parameter '" \o param.name \o "' must be an array")
             ELSE LET refused == Refused(param.items, value) IN
                  IF refused # {}
                  THEN outcome =
                          ParameterValidate(param.items,
                              value.items[CHOOSE i \in refused :
                                             \A j \in refused : i <= j])
                  ELSE LET validated ==
                               PyList([i \in 1..Len(value.items) |->
                                          ParameterValidate(param.items,
                                                            value.items[i]).value]) IN
                       IF Breaks(param, validated, "min_items")
                       THEN outcome.raised
                            /\ Names(outcome.message, param, "min_items")
                       ELSE IF Breaks(param, validated, "max_items")
                       THEN outcome.raised
                            /\ Names(outcome.message, param, "max_items")
                       ELSE outcome = Return(validated)
    /\ ParameterValidate(IntegersMinTwo, PyList(<<PyInt(1), PyInt(2), PyInt(3)>>))
          = Return(PyList(<<PyInt(1), PyInt(2), PyInt(3)>>))
    /\ ParameterValidate(IntegersMinTwo, PyList(<<PyInt(1)>>))
          = Raise("ValueError", "Parameter 'p1' must have at least 2 items")
    /\ ParameterValidate(IntegersMinTwo, PyList(<<PyStr("a"), PyStr("b")>>))
          = Raise("ValueError", "Parameter 'p1_item' must be an integer, got 'a'")

\* validate_values refused a list for its second element, the first one
\* being valid, though the list is also longer than the maximum
C38_Witness ==
    /\ validated_values # NotRun
    /\ validated_values.raised
    /\ \E k \in GivenToItems :
          /\ ParamOf(k).max_length = PyInt(1)
          /\ given_values.vals[k].t = "list"
          /\ Len(given_values.vals[k].items) > 1
          /\ Refused(ParamOf(k).items, given_values.vals[k]) = {2, 3}
          /\ validated_values = ParameterValidate(ParamOf(k).items,
                                                  given_values.vals[k].items[2])

----------------------------------------------------------------------------
(* the state machine of scalar coercion: one required parameter of type *)
(* boolean, integer or number, given one value                          *)

\* the strings given: the eight words in several letter cases, and strings
\* that are none of them
CoerceStrings ==
    { "true", "TRUE", "True", "tRuE", "1", "yes", "YES", "Yes", "yEs",
      "on", "ON", "On", "oN",
      "false", "FALSE", "False", "fAlSe", "0", "no", "NO", "No", "nO",
      "off", "OFF", "Off", "oFf",
      "maybe", "", "2", "t", "y", "n", "truee", "tru", " true", "on ", "00",
      "1.0", "enable" }

\* the numbers given: zero and nonzero, whole and fractional
CoerceNumbers ==
    { PyInt(0), PyInt(1), PyInt(2), PyInt(-1), PyFloat(0), PyFloat(2), PyFloat(3),
      PyFloat(-1) }

CoerceValues ==
    { PyStr(s) : s \in CoerceStrings } \cup CoerceNumbers
    \cup { PyBool(TRUE), PyBool(FALSE), PyList(<<>>), EmptyDict }

CoerceInit ==
    /\ HttpIdle /\ HookIdle /\ StdioIdle
    /\ \E type \in {"boolean", "integer", "number"} :
          parameter_list = <<Parameter("p1", type, "a scalar", [required |-> TRUE])>>
    /\ \E value \in CoerceValues :
          given_values = PyDict(<<"p1">>, [p1 |-> value])
    /\ validated_values = NotRun
    /\ mcp_schema = NotRun
    /\ validated_defaults = NotRun

CoerceSpec == CoerceInit /\ [][ParamNext]_vars

\* the strings that mean true, and those that mean false, as they are given
TrueStrings ==
    { "true", "TRUE", "True", "tRuE", "1", "yes", "YES", "Yes", "yEs",
      "on", "ON", "On", "oN" }

FalseStrings ==
    { "false", "FALSE", "False", "fAlSe", "0", "no", "NO", "No", "nO",
      "off", "OFF", "Off", "oFf" }

\* validate_values returned, and this is the value of the one parameter
Coerced(value) ==
    /\ ~validated_values.raised
    /\ validated_values.value.vals["p1"] = value

\* validate_values raised the ValueError of the parameter's type
Rejected(what) ==
    /\ validated_values.raised
    /\ validated_values.exc = "ValueError"
    /\ LET lead == "Parameter 'p1' must be " \o what IN
       /\ Len(validated_values.message) >= Len(lead)
       /\ SubSeq(validated_values.message, 1, Len(lead)) = lead

(* C39: a boolean parameter returns a native boolean as it is; returns
   true for the strings true, 1, yes, on and false for the strings false, 0,
   no, off, in any letter case, and refuses every other string; returns true
   for a nonzero number and false for zero. An integer parameter and a number
   parameter refuse true and false. *)
C39_BooleansAreStrict ==
    validated_values # NotRun =>
       LET type == parameter_list[1].type
           value == given_values.vals["p1"] IN
       /\ (type = "boolean" /\ value.t = "bool") => Coerced(value)
       /\ (type = "boolean" /\ value.t = "str") =>
             IF value.v \in TrueStrings THEN Coerced(PyBool(TRUE))
             ELSE IF value.v \in FalseStrings THEN Coerced(PyBool(FALSE))
             ELSE Rejected("a boolean")
       /\ (type = "boolean" /\ value.t = "int") => Coerced(PyBool(value.n # 0))
       /\ (type = "boolean" /\ value.t = "float") => Coerced(PyBool(value.twice # 0))
       /\ (type = "integer" /\ value.t = "bool") => Rejected("an integer, got boolean")
       /\ (type = "number" /\ value.t = "bool") => Rejected("a number, got boolean")

\* the boolean parameter was given "On" and validated to true
C39_Witness ==
    /\ validated_values # NotRun
    /\ parameter_list[1].type = "boolean"
    /\ given_values.vals["p1"] = PyStr("On")
    /\ Coerced(PyBool(TRUE))

----------------------------------------------------------------------------
(* the result of a wrapped invoke *)

\* the step is wrapped_invoke going from the return of the original invoke
\* to its own return
ReturnsFromWrapper == call.pc = "post" /\ call'.pc = "done"

\* the first element of the result holds rows under "data"
HoldsRows(result) ==
    /\ result.t = "list" /\ Len(result.items) > 0
    /\ result.items[1].t = "dict"
    /\ "data" \in DOMAIN result.items[1].vals
    /\ result.items[1].vals["data"].t = "list"
    /\ Len(result.items[1].vals["data"].items) > 0

(* C40: when the original invoke of a wrapped tool has returned, the
   wrapper returns: that result with one element added at its end, the column
   descriptions, if the tool is configured with data sources and the first
   element of the result holds rows; that result as it is in every other case.
   When the original invoke raises, the call ends in the same step with that
   exception, and nothing is fetched or appended. *)
C40_AppendsExactlyWhenConfiguredAndRows ==
    [][/\ ReturnsFromWrapper
          => LET result == call.result.value IN
             IF PostConfigured(call.tool) /\ HoldsRows(result)
             THEN /\ ~call'.result.raised
                  /\ call'.result.value.t = "list"
                  /\ Len(call'.result.value.items) = Len(result.items) + 1
                  /\ SubSeq(call'.result.value.items, 1, Len(result.items))
                        = result.items
                  /\ DOMAIN call'.result.value.items[Len(result.items) + 1].vals
                        = {"column_descriptions"}
             ELSE call'.result = call.result
       /\ (call.pc = "enter" /\ call'.pc = "post") => ~call'.result.raised
       /\ (call.pc = "enter" /\ call'.pc = "done"
           /\ Len(call'.trace) > 0
           /\ call'.trace[Len(call'.trace)].e = "invoke"
           /\ call'.trace[Len(call'.trace)].raised)
          => /\ call'.result.raised
             /\ call'.result \in ToolInvoke(tools.vals[call.tool], call.arguments)]_vars

====
